---- MODULE Spec2Model ----
(***************************************************************************)
(* Model of the validation layer of the point-of-sale application:         *)
(* validationUtils (utils/validation) and the strings it is applied to.    *)
(*                                                                         *)
(* A JavaScript string is a sequence of one-character strings.  A message  *)
(* is a sequence of non-empty text chunks, so the empty string is <<>> in  *)
(* both cases.  The state is the string last handed to the validators      *)
(* (input), the number of keystrokes spent on it since it was pasted       *)
(* (edits), how it came about (origin), and what every function of         *)
(* validationUtils returned for it (out).  For the ValidationInput         *)
(* component the state also holds its props, the value prop its parent     *)
(* gives it, its validationState and the calls the last change event made  *)
(* to onChange and onValidation.                                           *)
(***************************************************************************)
EXTENDS Integers, Sequences, FiniteSets, TLC

VARIABLES input, edits, origin, out,
          props, valueProp, validationState, onChange, onValidation,
          maxRetries, errorState, retrySeen, retryPc,
          invocations, failedAttempts, lastRetry,
          mounted, config, exported, stored, today,
          user, remoteSales, remoteItems, remoteStock, products,
          salesCache, indexSales, hookSales, notified, imported, calls

\* the strings handed to validationUtils and what it returned
fieldVars == <<input, edits, origin, out>>

\* a mounted ValidationInput
inputVars == <<props, valueProp, validationState, onChange, onValidation>>

\* a component that uses useErrorHandling: the option, the hook's state, the
\* retryCount the retry callback of the last render closed over, where the
\* call in flight stands; and, to state what is checked, how often the
\* operation was invoked, how many attempts failed in a row since the
\* operation last resolved or the error last timed out, and what the last
\* call of retry did
retryVars == <<maxRetries, errorState, retrySeen, retryPc,
               invocations, failedAttempts, lastRetry>>

\* SequentialNumbers: whether the dashboard shows it, its config state, the
\* config that the functions of window.sequentialNumbers closed over (none
\* before the first mount), localStorage 'sequential-config' (none or one
\* config), and the day
numbersVars == <<mounted, config, exported, stored, today>>

\* sales: whether a user is signed in; the rows of the remote tables sales
\* and sale_items (by sale) and the stock column of products; the stock of
\* the products state of Index; localStorage 'sales'; the sales state of
\* Index and of useSalesData; the sales onSaleCreated was called with and
\* those the import handler stored; and every call made so far of
\* createSale, handleSaleCreated and deleteSale, with where it stands
salesVars == <<user, remoteSales, remoteItems, remoteStock, products,
               salesCache, indexSales, hookSales, notified, imported, calls>>

\* what lies outside validationUtils and ValidationInput
serviceVars == <<retryVars, numbersVars, salesVars>>

vars == <<fieldVars, inputVars, serviceVars>>

-----------------------------------------------------------------------------
(* Bounds of the exploration.                                              *)

\* keystrokes explored after a sample was pasted; mixing punctuation into the
\* sample counts as one of them
MaxEdits == 1
\* a pasted sample may carry a separator after every k-th character, k <= MaxGap
MaxGap == 2
\* keystrokes explored from the empty field when every function is applied
MaxTyped == 3
\* change events a mounted ValidationInput receives
MaxChanges == 2
\* invocations of the operation handed to useErrorHandling
MaxAttempts == 5
\* reportError calls made outside handleAsyncOperation
MaxReports == 4
\* the highest sequential number reached
MaxNumber == 3
\* days that pass
MaxDay == 1
\* calls of createSale, handleSaleCreated and deleteSale, imported sales included
MaxCalls == 2
\* units of a product in stock before any sale
MaxStock == 2
\* units of a product in one cart item
MaxQty == 2
\* integer parts of parsed numbers saturate here; every min and max of the model is
\* smaller in absolute value, so each comparison against them is exact
NumCap == 1000

-----------------------------------------------------------------------------
(* Characters and JavaScript string primitives.                            *)

Digits == <<"0", "1", "2", "3", "4", "5", "6", "7", "8", "9">>

DigitChars == {Digits[k] : k \in 1..10}

\* \d of a JavaScript regular expression without the u flag
IsDigit(c) == c \in DigitChars

DigitValues == [c \in DigitChars |-> (CHOOSE k \in 1..10 : Digits[k] = c) - 1]

\* +el, parseInt(c) for a digit character
DigitVal(c) == DigitValues[c]

\* \s restricted to the characters of the model
IsSpace(c) == c = " "

\* s.replace(/[^\d]+/g, '') and s.replace(/[^\d]/g, '')
CleanDigits(s) == SelectSeq(s, IsDigit)

\* s.substring(a, b) with 0 <= a <= b, zero-based, b exclusive
Substring(s, a, b) ==
    LET e == IF b > Len(s) THEN Len(s) ELSE b
    IN  IF a >= e THEN <<>> ELSE SubSeq(s, a + 1, e)

\* SliceTo with the end off by one: slice(0, count-11)
SliceToOneMore(arr, end) ==
    LET e == IF end + 1 < 0
             THEN (IF Len(arr) + end + 1 < 0 THEN 0 ELSE Len(arr) + end + 1)
             ELSE (IF end + 1 > Len(arr) THEN Len(arr) ELSE end + 1)
    IN  SubSeq(arr, 1, e)

\* arr.slice(0, end): a negative end counts from the end of the array
SliceTo(arr, end) ==
    LET e == IF end < 0
             THEN (IF Len(arr) + end < 0 THEN 0 ELSE Len(arr) + end)
             ELSE (IF end > Len(arr) THEN Len(arr) ELSE end)
    IN  SubSeq(arr, 1, e)

\* n copies of the character c
Repeat(c, n) == [k \in 1..n |-> c]

-----------------------------------------------------------------------------
(* validateCPF                                                             *)

\* MatchesRepeated11 with the repetition count off by one: /(\d)\1{11}/
MatchesRepeated12(cpf) ==
    \E p \in 1..(Len(cpf) - 11) :
        /\ IsDigit(cpf[p])
        /\ \A k \in 1..11 : cpf[p + k] = cpf[p]

\* !!cpf.match(/(\d)\1{10}/): some digit followed by ten copies of itself
MatchesRepeated11(cpf) ==
    \E p \in 1..(Len(cpf) - 10) :
        /\ IsDigit(cpf[p])
        /\ \A k \in 1..10 : cpf[p + k] = cpf[p]

\* cpfArray.slice(0, count-12).reduce((soma, el, index) => soma + el*(count-index), 0)
RECURSIVE CpfReduce(_, _, _)
CpfReduce(arr, count, n) ==
    IF n = 0 THEN 0
    ELSE CpfReduce(arr, count, n - 1) + arr[n] * (count - (n - 1))

\* CpfRest without the final % 10
CpfRestNoMod10(cpfArray, count) ==
    (CpfReduce(SliceTo(cpfArray, count - 12), count,
               Len(SliceTo(cpfArray, count - 12))) * 10) % 11

\* const rest = (count) => (... * 10) % 11 % 10
CpfRest(cpfArray, count) ==
    ((CpfReduce(SliceTo(cpfArray, count - 12), count,
                Len(SliceTo(cpfArray, count - 12))) * 10) % 11) % 10

\* validateCPF that compares the first check digit only
validateCPFFirstDigitOnly(s) ==
    LET cpf == CleanDigits(s)
        cpfArray == [k \in 1..Len(cpf) |-> DigitVal(cpf[k])]
    IN  IF Len(cpf) # 11 \/ MatchesRepeated11(cpf) THEN FALSE
        ELSE CpfRest(cpfArray, 10) = cpfArray[10]

validateCPF(s) ==
    LET cpf == CleanDigits(s)
        cpfArray == [k \in 1..Len(cpf) |-> DigitVal(cpf[k])]
    IN  IF Len(cpf) # 11 \/ MatchesRepeated11(cpf) THEN FALSE
        ELSE /\ CpfRest(cpfArray, 10) = cpfArray[10]
             /\ CpfRest(cpfArray, 11) = cpfArray[11]

-----------------------------------------------------------------------------
(* validateCNPJ                                                            *)

\* the ten literals of the "CNPJs invalidos conhecidos" test
CnpjDenylist == {Repeat(Digits[k], 14) : k \in 1..10}

\* CnpjLoop with the weight wrapping to 8 instead of 9
RECURSIVE CnpjLoopWrap8(_, _, _, _, _)
CnpjLoopWrap8(numeros, tamanho, i, pos, soma) ==
    IF i < 1 THEN soma
    ELSE CnpjLoopWrap8(numeros, tamanho, i - 1,
                       IF pos - 1 < 2 THEN 8 ELSE pos - 1,
                       soma + DigitVal(numeros[tamanho - i + 1]) * pos)

\* for (let i = tamanho; i >= 1; i--) { soma += parseInt(numeros.charAt(tamanho - i)) * pos--;
\*                                      if (pos < 2) pos = 9; }
RECURSIVE CnpjLoop(_, _, _, _, _)
CnpjLoop(numeros, tamanho, i, pos, soma) ==
    IF i < 1 THEN soma
    ELSE CnpjLoop(numeros, tamanho, i - 1,
                  IF pos - 1 < 2 THEN 9 ELSE pos - 1,
                  soma + DigitVal(numeros[tamanho - i + 1]) * pos)

\* CnpjResultado with the threshold off by one: soma % 11 < 1
CnpjResultadoBelow1(cnpj, tamanho) ==
    LET numeros == Substring(cnpj, 0, tamanho)
        soma == CnpjLoop(numeros, tamanho, tamanho, tamanho - 7, 0)
    IN  IF soma % 11 < 1 THEN 0 ELSE 11 - (soma % 11)

\* soma = 0; pos = tamanho - 7; the loop; resultado = soma % 11 < 2 ? 0 : 11 - soma % 11
CnpjResultado(cnpj, tamanho) ==
    LET numeros == Substring(cnpj, 0, tamanho)
        soma == CnpjLoop(numeros, tamanho, tamanho, tamanho - 7, 0)
    IN  IF soma % 11 < 2 THEN 0 ELSE 11 - (soma % 11)

\* validateCNPJ that compares the first check digit only
validateCNPJFirstDigitOnly(s) ==
    LET cnpj == CleanDigits(s)
        tamanho == Len(cnpj) - 2
        digitos == Substring(cnpj, tamanho, Len(cnpj))
    IN  IF Len(cnpj) # 14 THEN FALSE
        ELSE IF cnpj \in CnpjDenylist THEN FALSE
        ELSE IF CnpjResultado(cnpj, tamanho) # DigitVal(digitos[1]) THEN FALSE
        ELSE TRUE

validateCNPJ(s) ==
    LET cnpj == CleanDigits(s)
        tamanho == Len(cnpj) - 2
        digitos == Substring(cnpj, tamanho, Len(cnpj))
    IN  IF Len(cnpj) # 14 THEN FALSE
        ELSE IF cnpj \in CnpjDenylist THEN FALSE
        ELSE IF CnpjResultado(cnpj, tamanho) # DigitVal(digitos[1]) THEN FALSE
        ELSE IF CnpjResultado(cnpj, tamanho + 1) # DigitVal(digitos[2]) THEN FALSE
        ELSE TRUE

-----------------------------------------------------------------------------
(* validateDocument                                                        *)

\* { isValid, type, message: isValid ? '<type> valido' : '<type> invalido' }
DocumentResult(isValid, type) ==
    [isValid |-> isValid,
     type    |-> type,
     message |-> IF isValid THEN <<type, " valido">> ELSE <<type, " invalido">>]

\* validateDocument that routes as formatDocument does: up to 11 digits to the CPF
validateDocumentUpTo11(document) ==
    IF Len(CleanDigits(document)) <= 11
    THEN DocumentResult(validateCPF(document), "CPF")
    ELSE IF Len(CleanDigits(document)) = 14
    THEN DocumentResult(validateCNPJ(document), "CNPJ")
    ELSE [isValid |-> FALSE,
          type    |-> "null",
          message |-> <<"Documento deve ter 11 digitos (CPF) ou 14 digitos (CNPJ)">>]

\* type is 'CPF' | 'CNPJ' | null; null is the string "null" here
validateDocument(document) ==
    IF Len(CleanDigits(document)) = 11
    THEN DocumentResult(validateCPF(document), "CPF")
    ELSE IF Len(CleanDigits(document)) = 14
    THEN DocumentResult(validateCNPJ(document), "CNPJ")
    ELSE [isValid |-> FALSE,
          type    |-> "null",
          message |-> <<"Documento deve ter 11 digitos (CPF) ou 14 digitos (CNPJ)">>]

-----------------------------------------------------------------------------
(* formatCPF, formatCNPJ, formatDocument                                   *)

\* zero-based index of the leftmost run of n digits in s, -1 when there is none:
\* where a pattern made of n \d in a row matches first
FirstDigitRun(s, n) ==
    LET starts == {p \in 0..(Len(s) - n) : \A k \in 1..n : IsDigit(s[p + k])}
    IN  IF starts = {} THEN 0 - 1
        ELSE CHOOSE p \in starts : \A q \in starts : p <= q

\* formatCPF that keeps nothing of what follows the eleven digits it matched
formatCPFDropsRest(s) ==
    LET cpf == CleanDigits(s)
        p == FirstDigitRun(cpf, 11)
    IN  IF p < 0 THEN cpf
        ELSE Substring(cpf, 0, p)
             \o Substring(cpf, p, p + 3) \o <<".">>
             \o Substring(cpf, p + 3, p + 6) \o <<".">>
             \o Substring(cpf, p + 6, p + 9) \o <<"-">>
             \o Substring(cpf, p + 9, p + 11)

\* cpf.replace(/(\d{3})(\d{3})(\d{3})(\d{2})/, '$1.$2.$3-$4') after the cleaning
formatCPF(s) ==
    LET cpf == CleanDigits(s)
        p == FirstDigitRun(cpf, 11)
    IN  IF p < 0 THEN cpf
        ELSE Substring(cpf, 0, p)
             \o Substring(cpf, p, p + 3) \o <<".">>
             \o Substring(cpf, p + 3, p + 6) \o <<".">>
             \o Substring(cpf, p + 6, p + 9) \o <<"-">>
             \o Substring(cpf, p + 9, p + 11)
             \o Substring(cpf, p + 11, Len(cpf))

\* formatCNPJ that keeps nothing of what follows the fourteen digits it matched
formatCNPJDropsRest(s) ==
    LET cnpj == CleanDigits(s)
        p == FirstDigitRun(cnpj, 14)
    IN  IF p < 0 THEN cnpj
        ELSE Substring(cnpj, 0, p)
             \o Substring(cnpj, p, p + 2) \o <<".">>
             \o Substring(cnpj, p + 2, p + 5) \o <<".">>
             \o Substring(cnpj, p + 5, p + 8) \o <<"/">>
             \o Substring(cnpj, p + 8, p + 12) \o <<"-">>
             \o Substring(cnpj, p + 12, p + 14)

\* cnpj.replace(/(\d{2})(\d{3})(\d{3})(\d{4})(\d{2})/, '$1.$2.$3/$4-$5') after the cleaning
formatCNPJ(s) ==
    LET cnpj == CleanDigits(s)
        p == FirstDigitRun(cnpj, 14)
    IN  IF p < 0 THEN cnpj
        ELSE Substring(cnpj, 0, p)
             \o Substring(cnpj, p, p + 2) \o <<".">>
             \o Substring(cnpj, p + 2, p + 5) \o <<".">>
             \o Substring(cnpj, p + 5, p + 8) \o <<"/">>
             \o Substring(cnpj, p + 8, p + 12) \o <<"-">>
             \o Substring(cnpj, p + 12, p + 14)
             \o Substring(cnpj, p + 14, Len(cnpj))

\* formatDocument that sends eleven digits to formatCNPJ
formatDocumentBelow11(document) ==
    LET cleanDoc == CleanDigits(document)
    IN  IF Len(cleanDoc) < 11 THEN formatCPF(cleanDoc) ELSE formatCNPJ(cleanDoc)

formatDocument(document) ==
    LET cleanDoc == CleanDigits(document)
    IN  IF Len(cleanDoc) <= 11 THEN formatCPF(cleanDoc) ELSE formatCNPJ(cleanDoc)

-----------------------------------------------------------------------------
(* validatePhone, formatPhone                                              *)

\* validatePhone that lets twelve digits through
validatePhoneUpTo12(phone) ==
    LET cleanPhone == CleanDigits(phone)
    IN  Len(cleanPhone) >= 10 /\ Len(cleanPhone) <= 12

validatePhone(phone) ==
    LET cleanPhone == CleanDigits(phone)
    IN  Len(cleanPhone) >= 10 /\ Len(cleanPhone) <= 11

\* PhonePattern whose last group keeps three digits of the four
PhonePatternLosesDigit(cleanPhone, mid) ==
    LET p == FirstDigitRun(cleanPhone, 2 + mid + 4)
    IN  IF p < 0 THEN cleanPhone
        ELSE Substring(cleanPhone, 0, p)
             \o <<"(">> \o Substring(cleanPhone, p, p + 2) \o <<")", " ">>
             \o Substring(cleanPhone, p + 2, p + 2 + mid) \o <<"-">>
             \o Substring(cleanPhone, p + 2 + mid, p + 5 + mid)

\* cleanPhone.replace(/(\d{2})(\d{4 or 5})(\d{4})/, '($1) $2-$3')
PhonePattern(cleanPhone, mid) ==
    LET p == FirstDigitRun(cleanPhone, 2 + mid + 4)
    IN  IF p < 0 THEN cleanPhone
        ELSE Substring(cleanPhone, 0, p)
             \o <<"(">> \o Substring(cleanPhone, p, p + 2) \o <<")", " ">>
             \o Substring(cleanPhone, p + 2, p + 2 + mid) \o <<"-">>
             \o Substring(cleanPhone, p + 2 + mid, p + 6 + mid)
             \o Substring(cleanPhone, p + 6 + mid, Len(cleanPhone))

\* formatPhone that returns the cleaned digits when no pattern applies
formatPhoneCleansOther(phone) ==
    LET cleanPhone == CleanDigits(phone)
    IN  IF Len(cleanPhone) = 10 THEN PhonePattern(cleanPhone, 4)
        ELSE IF Len(cleanPhone) = 11 THEN PhonePattern(cleanPhone, 5)
        ELSE cleanPhone

formatPhone(phone) ==
    LET cleanPhone == CleanDigits(phone)
    IN  IF Len(cleanPhone) = 10 THEN PhonePattern(cleanPhone, 4)
        ELSE IF Len(cleanPhone) = 11 THEN PhonePattern(cleanPhone, 5)
        ELSE phone

-----------------------------------------------------------------------------
(* validateEmail                                                           *)

\* [^\s@]
IsEmailChar(c) == ~IsSpace(c) /\ c # "@"

\* validateEmail that asks for nothing after the dot
validateEmailDotLast(email) ==
    \E a \in 1..Len(email), d \in 1..Len(email) :
        /\ email[a] = "@"
        /\ email[d] = "."
        /\ 1 < a /\ a + 1 < d /\ d <= Len(email)
        /\ \A k \in 1..Len(email) : (k # a /\ k # d) => IsEmailChar(email[k])

\* /^[^\s@]+@[^\s@]+\.[^\s@]+$/.test(email): an '@' at a, a '.' at d, and
\* non-empty runs of [^\s@] before a, between a and d, and after d
validateEmail(email) ==
    \E a \in 1..Len(email), d \in 1..Len(email) :
        /\ email[a] = "@"
        /\ email[d] = "."
        /\ 1 < a /\ a + 1 < d /\ d < Len(email)
        /\ \A k \in 1..Len(email) : (k # a /\ k # d) => IsEmailChar(email[k])

-----------------------------------------------------------------------------
(* parseFloat, validateCurrency, validateRequired, validateNumber          *)

\* length of the longest prefix of s made of digits
DigitPrefixLen(s) ==
    CHOOSE n \in 0..Len(s) :
        /\ \A k \in 1..n : IsDigit(s[k])
        /\ n < Len(s) => ~IsDigit(s[n + 1])

\* length of the longest prefix of s made of white space
SpacePrefixLen(s) ==
    CHOOSE n \in 0..Len(s) :
        /\ \A k \in 1..n : IsSpace(s[k])
        /\ n < Len(s) => ~IsSpace(s[n + 1])

\* Math.min for the saturation
Smaller(a, b) == IF a > b THEN b ELSE a

\* value of the first n characters of ds, a run of decimal digits, saturating at NumCap
RECURSIVE SatValue(_, _)
SatValue(ds, n) ==
    IF n = 0 THEN 0
    ELSE Smaller(SatValue(ds, n - 1) * 10 + DigitVal(ds[n]), NumCap)

NaN == [nan |-> TRUE, neg |-> FALSE, int |-> 0, frac |-> FALSE]

\* the digits of the fraction: what follows the integer digits when it starts with '.'
FractionDigits(afterInt) ==
    IF Len(afterInt) > 0 /\ afterInt[1] = "."
    THEN Substring(afterInt, 1, 1 + DigitPrefixLen(Substring(afterInt, 1, Len(afterInt))))
    ELSE <<>>

\* the unsigned decimal literal at the start of u, ni = the number of its integer digits
ParseUnsigned(u, ni, fracDigits, negative) ==
    IF ni = 0 /\ Len(fracDigits) = 0 THEN NaN
    ELSE [nan  |-> FALSE,
          neg  |-> negative,
          int  |-> SatValue(u, ni),
          frac |-> \E k \in 1..Len(fracDigits) : fracDigits[k] # "0"]

ParseAfterSign(u, negative) ==
    ParseUnsigned(u, DigitPrefixLen(u),
                  FractionDigits(Substring(u, DigitPrefixLen(u), Len(u))), negative)

ParseTrimmed(t) ==
    IF Len(t) > 0 /\ t[1] \in {"-", "+"}
    THEN ParseAfterSign(Substring(t, 1, Len(t)), t[1] = "-")
    ELSE ParseAfterSign(t, FALSE)

\* parseFloat(s): leading white space, an optional sign, digits, an optional
\* fraction; NaN when no digit is found.  The number is kept as its sign, its
\* integer part and whether its fraction is non-zero, which decides every
\* comparison against an integer.  The characters of the model hold no
\* exponent letter and no 'Infinity'.
ParseFloat(s) == ParseTrimmed(Substring(s, SpacePrefixLen(s), Len(s)))

\* numValue <= n in the place of numValue < n
NumLessOrEqual(v, n) ==
    IF v.neg THEN v.int >= 0 - n
    ELSE v.int < n \/ (v.int = n /\ ~v.frac)

\* numValue < n and numValue > n for a parsed number and an integer n
NumLess(v, n) ==
    IF v.neg THEN v.int > 0 - n \/ (v.int = 0 - n /\ v.frac)
    ELSE v.int < n

NumGreater(v, n) ==
    IF v.neg THEN v.int < 0 - n
    ELSE v.int > n \/ (v.int = n /\ v.frac)

\* s.replace(',', '.'): the first comma only
ReplaceFirstComma(s) ==
    IF \E k \in 1..Len(s) : s[k] = ","
    THEN LET p == CHOOSE k \in 1..Len(s) : s[k] = "," /\ \A j \in 1..(k - 1) : s[j] # ","
         IN  [k \in 1..Len(s) |-> IF k = p THEN "." ELSE s[k]]
    ELSE s

\* the character class with the minus sign kept
IsCurrencyCharOrMinus(c) == IsDigit(c) \/ c = "." \/ c = "," \/ c = "-"

IsCurrencyChar(c) == IsDigit(c) \/ c = "." \/ c = ","

\* !isNaN(numValue) && numValue >= 0
IsNonNegativeNumber(numValue) == ~numValue.nan /\ ~NumLess(numValue, 0)

validateCurrency(value) ==
    IsNonNegativeNumber(ParseFloat(ReplaceFirstComma(SelectSeq(value, IsCurrencyChar))))

\* trim that removes nothing
TrimNothing(s) == s

\* s.trim()
Trim(s) ==
    LET a == SpacePrefixLen(s)
        b == CHOOSE n \in 0..Len(s) :
                /\ \A k \in (n + 1)..Len(s) : IsSpace(s[k])
                /\ n > 0 => ~IsSpace(s[n])
    IN  Substring(s, a, b)

\* validateRequired that builds the message whatever the verdict
validateRequiredAlwaysMessage(value, fieldName) ==
    [isValid |-> Len(Trim(value)) > 0,
     message |-> fieldName \o <<" e obrigatorio">>]

validateRequired(value, fieldName) ==
    LET isValid == Len(Trim(value)) > 0
    IN  [isValid |-> isValid,
         message |-> IF isValid THEN <<>> ELSE fieldName \o <<" e obrigatorio">>]

\* max is <<>> when the argument is left out and <<n>> when it is given
\* CheckNumber that returns no message for an unparsable value
CheckNumberNoMessage(numValue, min, max) ==
    IF numValue.nan
    THEN [isValid |-> FALSE]
    ELSE IF NumLess(numValue, min)
    THEN [isValid |-> FALSE, message |-> <<"Valor minimo e ", ToString(min)>>]
    ELSE IF max # <<>> /\ NumGreater(numValue, max[1])
    THEN [isValid |-> FALSE, message |-> <<"Valor maximo e ", ToString(max[1])>>]
    ELSE [isValid |-> TRUE, message |-> <<>>]

CheckNumber(numValue, min, max) ==
    IF numValue.nan
    THEN [isValid |-> FALSE, message |-> <<"Valor deve ser um numero valido">>]
    ELSE IF NumLess(numValue, min)
    THEN [isValid |-> FALSE, message |-> <<"Valor minimo e ", ToString(min)>>]
    ELSE IF max # <<>> /\ NumGreater(numValue, max[1])
    THEN [isValid |-> FALSE, message |-> <<"Valor maximo e ", ToString(max[1])>>]
    ELSE [isValid |-> TRUE, message |-> <<>>]

validateNumber(value, min, max) == CheckNumber(ParseFloat(value), min, max)

-----------------------------------------------------------------------------
(* ValidationInput.handleChange: the value it shows and the result it builds *)

ValidationTypes == {"document", "phone", "email", "currency", "required", "number", "none"}

\* label || 'Campo'
LabelOrCampo(label) == IF label = <<>> THEN <<"Campo">> ELSE label

\* newValue after the auto-formatting
FormattedValue(validationType, raw) ==
    IF validationType = "document" THEN formatDocument(raw)
    ELSE IF validationType = "phone" THEN formatPhone(raw)
    ELSE raw

\* Validation that runs the selected validator on a blank value too
ValidationOfBlankToo(validationType, required, label, raw) ==
    LET newValue == FormattedValue(validationType, raw)
    IN  IF required /\ Trim(newValue) = <<>>
        THEN [isValid |-> FALSE, message |-> LabelOrCampo(label) \o <<" e obrigatorio">>]
        ELSE CASE validationType = "document" -> validateDocument(newValue)
               [] validationType = "phone" ->
                    [isValid |-> validatePhone(newValue),
                     message |-> IF validatePhone(newValue) THEN <<>> ELSE <<"Telefone invalido">>]
               [] validationType = "email" ->
                    [isValid |-> validateEmail(newValue),
                     message |-> IF validateEmail(newValue) THEN <<>> ELSE <<"Email invalido">>]
               [] validationType = "currency" ->
                    [isValid |-> validateCurrency(newValue),
                     message |-> IF validateCurrency(newValue) THEN <<>> ELSE <<"Valor invalido">>]
               [] validationType = "number" -> validateNumber(newValue, 0, <<>>)
               [] validationType = "required" -> validateRequired(newValue, LabelOrCampo(label))
               [] OTHER -> [isValid |-> TRUE, message |-> <<>>]

\* the object handed to setValidationState and onValidation
Validation(validationType, required, label, raw) ==
    LET newValue == FormattedValue(validationType, raw)
    IN  IF required /\ Trim(newValue) = <<>>
        THEN [isValid |-> FALSE, message |-> LabelOrCampo(label) \o <<" e obrigatorio">>]
        ELSE IF Trim(newValue) # <<>>
        THEN CASE validationType = "document" -> validateDocument(newValue)
               [] validationType = "phone" ->
                    [isValid |-> validatePhone(newValue),
                     message |-> IF validatePhone(newValue) THEN <<>> ELSE <<"Telefone invalido">>]
               [] validationType = "email" ->
                    [isValid |-> validateEmail(newValue),
                     message |-> IF validateEmail(newValue) THEN <<>> ELSE <<"Email invalido">>]
               [] validationType = "currency" ->
                    [isValid |-> validateCurrency(newValue),
                     message |-> IF validateCurrency(newValue) THEN <<>> ELSE <<"Valor invalido">>]
               [] validationType = "number" -> validateNumber(newValue, 0, <<>>)
               [] validationType = "required" -> validateRequired(newValue, LabelOrCampo(label))
               [] OTHER -> [isValid |-> TRUE, message |-> <<>>]
        ELSE [isValid |-> TRUE, message |-> <<>>]

-----------------------------------------------------------------------------
(* The strings the validators are applied to.                              *)

\* the identifier of the worked example "123.456.789-09"
CpfExample == <<"1", "2", "3", ".", "4", "5", "6", ".", "7", "8", "9", "-", "0", "9">>

\* company.document of the printed budget
CnpjExample == <<"4", "5", ".", "1", "7", "4", ".", "7", "6", "2", "/", "0", "0", "0", "1", "-", "4", "2">>

\* company.phone of the printed budget
PhoneExample == <<"(", "6", "2", ")", " ", "9", "8", "3", "3", "5", "-", "0", "3", "8", "4">>

\* '00000000000000' ... '99999999999999' and their 11-digit counterparts
SameDigitSamples == {Repeat(Digits[k], n) : k \in 1..10, n \in {11, 14}}

\* the remaining worked examples: phones, e-mails, numbers, required fields
OtherSamples ==
    { <<>>, PhoneExample, CpfExample, CnpjExample,
      <<"1", "1", "9", "8", "7", "6", "5", "4", "3", "2", "1">>,
      <<"1", "1", "3", "3", "2", "2", "4", "4", "5", "5">>,
      <<"1", "2", "3">>,
      <<"a", "@", "b", ".", "c", "o">>, <<"a", "@", "b">>, <<"a", ".", "b", "@", "c">>,
      <<"5">>, <<"a", "b", "c">>, <<" ", " ", " ">>, <<"x">> }

Samples == SameDigitSamples \cup OtherSamples

\* characters a keystroke appends
TypedChars == {"1", ".", ",", "-", " ", "@", "a"}

\* punctuation found mixed into a pasted string
Separators == {".", "-", " "}

\* doc with sep inserted after every gap-th character; gap = 0 leaves doc as it is
Decorated(doc, sep, gap) ==
    LET F[k \in 0..Len(doc)] ==
            IF k = 0 THEN <<>>
            ELSE F[k - 1] \o <<doc[k]>>
                 \o (IF gap > 0 /\ k % gap = 0 THEN <<sep>> ELSE <<>>)
    IN  F[Len(doc)]

\* arguments the two-argument validators are called with
FieldNames == {<<>>, <<"Campo">>, <<"Name">>}
Labels == {<<>>, <<"Name">>}
Mins == {0 - 1, 0, 10}
Maxes == {<<>>, <<1>>, <<5>>, <<100>>}

-----------------------------------------------------------------------------
(* Check digits as the identifier rules state them, used to build          *)
(* identifiers with their own check digits.                                *)

\* weighted sum of the digits ds, the k-th digit weighted by w[k]
RECURSIVE WeightedSum(_, _, _)
WeightedSum(ds, w, n) ==
    IF n = 0 THEN 0 ELSE WeightedSum(ds, w, n - 1) + ds[n] * w[n]

\* descending weights first, first - 1, ..., 2
DescendingWeights(first) == [k \in 1..(first - 1) |-> first - k + 1]

\* (sum * 10) mod 11 mod 10 over the first n digits, weights n + 1 down to 2
CpfCheckDigit(ds, n) ==
    ((WeightedSum(ds, DescendingWeights(n + 1), n) * 10) % 11) % 10

CnpjWeights12 == <<5, 4, 3, 2, 9, 8, 7, 6, 5, 4, 3, 2>>
CnpjWeights13 == <<6, 5, 4, 3, 2, 9, 8, 7, 6, 5, 4, 3, 2>>

\* 0 if the weighted sum mod 11 is below 2, else 11 minus it
CnpjCheckDigit(ds, w) ==
    LET r == WeightedSum(ds, w, Len(w)) % 11
    IN  IF r < 2 THEN 0 ELSE 11 - r

DigitsOf(s) == [k \in 1..Len(CleanDigits(s)) |-> DigitVal(CleanDigits(s)[k])]

\* base digits followed by the two check digits computed from them
WithCpfCheckDigits(base) ==
    LET d10 == CpfCheckDigit(base, 9)
        d11 == CpfCheckDigit(base \o <<d10>>, 10)
    IN  [k \in 1..11 |-> Digits[(base \o <<d10, d11>>)[k] + 1]]

WithCnpjCheckDigits(base) ==
    LET d13 == CnpjCheckDigit(base, CnpjWeights12)
        d14 == CnpjCheckDigit(base \o <<d13>>, CnpjWeights13)
    IN  [k \in 1..14 |-> Digits[(base \o <<d13, d14>>)[k] + 1]]

-----------------------------------------------------------------------------
(* The state machine: a string arrives (pasted, typed, corrected or built  *)
(* with its own check digits) and validationUtils is applied to it.        *)
(*                                                                         *)
(* Spec explores the identifier validators over the samples and over every *)
(* string within MaxEdits keystrokes of a sample.  SpecFields              *)
(* applies every function of validationUtils, and the result               *)
(* ValidationInput builds, to the samples and to short typed strings.      *)

DocResults(s) ==
    [validateCPF      |-> validateCPF(s),
     validateCNPJ     |-> validateCNPJ(s),
     validateDocument |-> validateDocument(s)]

FieldResults(s) ==
    [validateCPF      |-> validateCPF(s),
     validateCNPJ     |-> validateCNPJ(s),
     validateDocument |-> validateDocument(s),
     formatCPF        |-> formatCPF(s),
     formatCNPJ       |-> formatCNPJ(s),
     formatDocument   |-> formatDocument(s),
     validatePhone    |-> validatePhone(s),
     formatPhone      |-> formatPhone(s),
     validateEmail    |-> validateEmail(s),
     validateCurrency |-> validateCurrency(s),
     validateRequired |-> [f \in FieldNames |-> validateRequired(s, f)],
     validateNumber   |-> [m \in Mins, x \in Maxes |-> validateNumber(s, m, x)],
     validation       |-> [vt \in ValidationTypes, r \in BOOLEAN, l \in Labels |->
                              Validation(vt, r, l, s)]]

\* useState({ isValid: true, message: '' })
InitialValidationState == [isValid |-> TRUE, message |-> <<>>]

\* no ValidationInput is mounted
NoProps ==
    [validationType |-> "none", required |-> FALSE, label |-> <<>>,
     showValidation |-> TRUE, onChange |-> FALSE, onValidation |-> FALSE]

Unmounted ==
    /\ props = NoProps
    /\ valueProp = <<>>
    /\ validationState = InitialValidationState
    /\ onChange = <<>>
    /\ onValidation = <<>>

\* maxRetries = 3
DefaultMaxRetries == 3

\* useState<ErrorState>: error, errorId and lastErrorTime are null exactly
\* when isError is false, so isError stands for them
ClearedErrorState == [isError |-> FALSE, retryCount |-> 0]

\* retry has not been called
NoRetryYet == [outcome |-> "none", recorded |-> 0, failedBefore |-> 0]

\* no component uses useErrorHandling
RetryIdle ==
    /\ maxRetries = DefaultMaxRetries
    /\ errorState = ClearedErrorState
    /\ retrySeen = 0
    /\ retryPc = "idle"
    /\ invocations = 0
    /\ failedAttempts = 0
    /\ lastRetry = NoRetryYet

\* useState<SequentialConfig>; dates are day numbers
DefaultConfig(day) ==
    [saleNumber |-> 1, budgetNumber |-> 1, receiptNumber |-> 1,
     prefix |-> "PDV", resetDaily |-> FALSE, lastReset |-> day]

\* the dashboard was never shown
NumbersIdle ==
    /\ mounted = FALSE
    /\ config = DefaultConfig(0)
    /\ exported = <<>>
    /\ stored = <<>>
    /\ today = 0

\* the products table and the products state hold these products
Products == {"p1"}

\* nobody is signed in and nothing was sold
SalesIdle ==
    /\ user = FALSE
    /\ remoteSales = {}
    /\ remoteItems = {}
    /\ remoteStock = [p \in Products |-> 0]
    /\ products = [p \in Products |-> 0]
    /\ salesCache = {}
    /\ indexSales = {}
    /\ hookSales = {}
    /\ notified = {}
    /\ imported = {}
    /\ calls = <<>>

ServicesIdle == RetryIdle /\ NumbersIdle /\ SalesIdle

Init ==
    /\ input = <<>>
    /\ edits = 0
    /\ origin = "typed"
    /\ out = DocResults(<<>>)
    /\ Unmounted
    /\ ServicesIdle

Arrive(s, e, o) ==
    /\ input' = s
    /\ edits' = e
    /\ origin' = o
    /\ out' = DocResults(s)
    /\ UNCHANGED <<inputVars, serviceVars>>

\* a sample is pasted into the empty field, plain or with punctuation mixed in
Paste ==
    /\ input = <<>>
    /\ edits = 0
    /\ \E doc \in Samples, sep \in Separators, gap \in 0..MaxGap :
         Arrive(Decorated(doc, sep, gap), IF gap = 0 THEN 0 ELSE 1, "typed")

\* one digit of the field is overwritten by another digit
ReplaceDigit ==
    /\ edits < MaxEdits
    /\ \E p \in 1..Len(input), d \in DigitChars :
        /\ IsDigit(input[p])
        /\ d # input[p]
        /\ Arrive([input EXCEPT ![p] = d], edits + 1, "typed")

\* a character is typed at the end of the field
TypeChar ==
    /\ edits < MaxEdits
    /\ \E c \in TypedChars : Arrive(Append(input, c), edits + 1, "typed")

\* the last character of the field is deleted
Backspace ==
    /\ edits < MaxEdits
    /\ Len(input) > 0
    /\ Arrive(SubSeq(input, 1, Len(input) - 1), edits + 1, "typed")

\* the 9 base digits of an 11-digit field are completed with their own check digits
GenerateCPF ==
    /\ origin = "typed"
    /\ Len(CleanDigits(input)) = 11
    /\ Arrive(WithCpfCheckDigits(SubSeq(DigitsOf(input), 1, 9)), MaxEdits, "generatedCPF")

\* the 12 base digits of a 14-digit field are completed with their own check digits
GenerateCNPJ ==
    /\ origin = "typed"
    /\ Len(CleanDigits(input)) = 14
    /\ Arrive(WithCnpjCheckDigits(SubSeq(DigitsOf(input), 1, 12)), MaxEdits, "generatedCNPJ")

Next ==
    \/ Paste
    \/ ReplaceDigit
    \/ TypeChar
    \/ Backspace
    \/ GenerateCPF
    \/ GenerateCNPJ

Spec == Init /\ [][Next]_vars

-----------------------------------------------------------------------------
(* SpecFields                                                              *)

InitFields ==
    /\ input = <<>>
    /\ edits = 0
    /\ origin = "typed"
    /\ out = FieldResults(<<>>)
    /\ Unmounted
    /\ ServicesIdle

ArriveField(s, e) ==
    /\ input' = s
    /\ edits' = e
    /\ origin' = "typed"
    /\ out' = FieldResults(s)
    /\ UNCHANGED <<inputVars, serviceVars>>

\* a sample is pasted into the empty field; one keystroke may follow
PasteField ==
    /\ input = <<>>
    /\ edits = 0
    /\ \E doc \in Samples, sep \in Separators, gap \in 0..MaxGap :
         ArriveField(Decorated(doc, sep, gap), MaxTyped - 1)

\* a character is typed at the end of the field
TypeCharField ==
    /\ edits < MaxTyped
    /\ \E c \in TypedChars : ArriveField(Append(input, c), edits + 1)

\* the last character of the field is deleted
BackspaceField ==
    /\ edits < MaxTyped
    /\ Len(input) > 0
    /\ ArriveField(SubSeq(input, 1, Len(input) - 1), edits + 1)

NextFields ==
    \/ PasteField
    \/ TypeCharField
    \/ BackspaceField

SpecFields == InitFields /\ [][NextFields]_vars

-----------------------------------------------------------------------------
(* SpecInput: a mounted ValidationInput and the change events it handles.  *)
(* input is e.target.value of the last event, onChange and onValidation    *)
(* hold the arguments of the calls that event made, origin tells whether   *)
(* an event took place since the component was mounted.                    *)

\* the props a ValidationInput is mounted with; onChange and onValidation
\* tell whether the callback is given.  The value prop is a variable: the
\* parent sets it, at mounting and, when it passes onChange, to the formatted
\* value every change event hands it.
PropsSet ==
    [validationType : ValidationTypes, required : BOOLEAN, label : Labels,
     showValidation : BOOLEAN, onChange : BOOLEAN, onValidation : BOOLEAN]

\* the text in the <Input>: the value prop when the parent controls it, the
\* text of the last event otherwise
Displayed == IF props.onChange \/ valueProp # <<>> THEN valueProp ELSE input

InitInput ==
    /\ input = <<>>
    /\ edits = 0
    /\ origin = "mounted"
    /\ out = DocResults(<<>>)
    /\ props \in PropsSet
    /\ valueProp = <<>>
    /\ validationState = InitialValidationState
    /\ onChange = <<>>
    /\ onValidation = <<>>
    /\ ServicesIdle

\* handleChange for an event whose target holds raw; e counts the events
handleChange(raw, e) ==
    /\ input' = raw
    /\ edits' = e
    /\ origin' = "changed"
    /\ onChange' =
          IF props.onChange THEN <<FormattedValue(props.validationType, raw)>> ELSE <<>>
    /\ valueProp' =
          IF props.onChange THEN FormattedValue(props.validationType, raw) ELSE valueProp
    /\ validationState' =
          Validation(props.validationType, props.required, props.label, raw)
    /\ onValidation' =
          IF props.onValidation
          THEN <<[isValid |-> validationState'.isValid, message |-> validationState'.message]>>
          ELSE <<>>
    /\ UNCHANGED <<out, props, serviceVars>>

\* the parent renders the component with a value of its own; no change
\* event takes place
ParentSetsValue ==
    /\ Displayed = <<>>
    /\ edits = 0
    /\ \E doc \in Samples \ {<<>>} :
          /\ valueProp' = doc
          /\ edits' = MaxChanges - 1
    /\ UNCHANGED <<input, origin, out, props, validationState, onChange, onValidation>>
    /\ UNCHANGED serviceVars

\* a sample is pasted into the empty field; one keystroke may follow
PasteInput ==
    /\ Displayed = <<>>
    /\ edits = 0
    /\ \E doc \in Samples : handleChange(doc, MaxChanges - 1)

\* a character is typed at the end of the field
TypeCharInput ==
    /\ edits < MaxChanges
    /\ \E c \in TypedChars : handleChange(Append(Displayed, c), edits + 1)

\* the last character of the field is deleted
BackspaceInput ==
    /\ edits < MaxChanges
    /\ Len(Displayed) > 0
    /\ handleChange(SubSeq(Displayed, 1, Len(Displayed) - 1), edits + 1)

NextInput ==
    \/ ParentSetsValue
    \/ PasteInput
    \/ TypeCharInput
    \/ BackspaceInput

SpecInput == InitInput /\ [][NextInput]_vars

-----------------------------------------------------------------------------
(* SpecRetry: useErrorHandling.  A component calls retry,                  *)
(* handleAsyncOperation and reportError; the operation it hands over       *)
(* resolves or rejects; React renders again after a state update, and only *)
(* then do the callbacks see the new errorState.                           *)

InitRetry ==
    /\ input = <<>>
    /\ edits = 0
    /\ origin = "typed"
    /\ out = DocResults(<<>>)
    /\ Unmounted
    /\ maxRetries \in 1..DefaultMaxRetries
    /\ errorState = ClearedErrorState
    /\ retrySeen = 0
    /\ retryPc = "idle"
    /\ invocations = 0
    /\ failedAttempts = 0
    /\ lastRetry = NoRetryYet
    /\ NumbersIdle
    /\ SalesIdle

\* clearError
clearError == errorState' = ClearedErrorState

\* reportError: setErrorState(prev => ({ ..., retryCount: prev.retryCount + 1 }))
reportError ==
    errorState' = [isError |-> TRUE, retryCount |-> errorState.retryCount + 1]

\* canRetry: errorState.retryCount < maxRetries
canRetry == errorState.retryCount < maxRetries

\* retry, up to its await: the limit is read from the errorState of the
\* render that made the callback
RetryCall ==
    /\ retryPc = "idle"
    /\ invocations < MaxAttempts
    /\ IF retrySeen >= maxRetries
       THEN /\ lastRetry' = [outcome |-> "refused", recorded |-> retrySeen,
                              failedBefore |-> failedAttempts]
            /\ UNCHANGED retryPc
       ELSE /\ lastRetry' = [outcome |-> "invoked", recorded |-> retrySeen,
                              failedBefore |-> failedAttempts]
            /\ retryPc' = "delay"
    /\ UNCHANGED <<maxRetries, errorState, retrySeen, invocations, failedAttempts>>
    /\ UNCHANGED <<fieldVars, inputVars, numbersVars, salesVars>>

\* handleAsyncOperation, up to its await: clearError(), then operation()
StartOperation ==
    /\ clearError
    /\ invocations' = invocations + 1
    /\ retryPc' = "operation"
    /\ UNCHANGED <<maxRetries, retrySeen, failedAttempts, lastRetry>>
    /\ UNCHANGED <<fieldVars, inputVars, numbersVars, salesVars>>

\* retryDelay has passed: retry goes on into handleAsyncOperation
RetryDelayElapsed ==
    /\ retryPc = "delay"
    /\ StartOperation

\* the component calls handleAsyncOperation itself
HandleAsyncOperationCall ==
    /\ retryPc = "idle"
    /\ invocations < MaxAttempts
    /\ StartOperation

\* the awaited operation resolves: the result is returned
OperationResolves ==
    /\ retryPc = "operation"
    /\ retryPc' = "idle"
    /\ failedAttempts' = 0
    /\ UNCHANGED <<maxRetries, errorState, retrySeen, invocations, lastRetry>>
    /\ UNCHANGED <<fieldVars, inputVars, numbersVars, salesVars>>

\* the awaited operation rejects: reportError, and null is returned
OperationRejects ==
    /\ retryPc = "operation"
    /\ reportError
    /\ retryPc' = "idle"
    /\ failedAttempts' = failedAttempts + 1
    /\ UNCHANGED <<maxRetries, retrySeen, invocations, lastRetry>>
    /\ UNCHANGED <<fieldVars, inputVars, numbersVars, salesVars>>

\* reportError called by the component or by withErrorBoundary
ReportErrorCall ==
    /\ errorState.retryCount < MaxReports
    /\ reportError
    /\ UNCHANGED <<maxRetries, retrySeen, retryPc, invocations, failedAttempts, lastRetry>>
    /\ UNCHANGED <<fieldVars, inputVars, numbersVars, salesVars>>

\* the effect's timeout: an error is cleared 10 seconds after it was reported
AutoClear ==
    /\ errorState.isError
    /\ clearError
    /\ failedAttempts' = 0
    /\ UNCHANGED <<maxRetries, retrySeen, retryPc, invocations, lastRetry>>
    /\ UNCHANGED <<fieldVars, inputVars, numbersVars, salesVars>>

\* React renders the component again: retry is made anew over the current errorState
Render ==
    /\ retrySeen # errorState.retryCount
    /\ retrySeen' = errorState.retryCount
    /\ UNCHANGED <<maxRetries, errorState, retryPc, invocations, failedAttempts, lastRetry>>
    /\ UNCHANGED <<fieldVars, inputVars, numbersVars, salesVars>>

NextRetry ==
    \/ RetryCall
    \/ RetryDelayElapsed
    \/ HandleAsyncOperationCall
    \/ OperationResolves
    \/ OperationRejects
    \/ ReportErrorCall
    \/ AutoClear
    \/ Render

SpecRetry == InitRetry /\ [][NextRetry]_vars

-----------------------------------------------------------------------------
(* SpecNumbers: SequentialNumbers.  Index shows the component on the       *)
(* dashboard tab only; the functions it puts in window.sequentialNumbers   *)
(* stay there, closed over the config of the render that exported them.    *)

Types == {"sale", "budget", "receipt"}

Prefixes == {"PDV", "NF"}

\* configurations an earlier session left in localStorage
SavedConfigs ==
    { [saleNumber |-> s, budgetNumber |-> 1, receiptNumber |-> r,
       prefix |-> "PDV", resetDaily |-> d, lastReset |-> 0] :
        s \in {1, 2}, r \in {1, 2}, d \in BOOLEAN }

InitNumbers ==
    /\ input = <<>>
    /\ edits = 0
    /\ origin = "typed"
    /\ out = DocResults(<<>>)
    /\ Unmounted
    /\ RetryIdle
    /\ SalesIdle
    /\ mounted = FALSE
    /\ config = DefaultConfig(0)
    /\ exported = <<>>
    /\ stored \in {<<>>} \cup { <<c>> : c \in SavedConfigs }
    /\ today = 0

\* the counter that a type names
CounterOf(type) ==
    CASE type = "sale" -> "saleNumber"
      [] type = "budget" -> "budgetNumber"
      [] type = "receipt" -> "receiptNumber"

\* the load effect's daily reset of savedConfig
ResetForToday(savedConfig) ==
    [savedConfig EXCEPT !.saleNumber = 1, !.budgetNumber = 1,
                        !.receiptNumber = 1, !.lastReset = today]

\* the load effect: what it leaves in localStorage
LoadedConfig ==
    IF stored[1].resetDaily /\ stored[1].lastReset # today
    THEN ResetForToday(stored[1])
    ELSE stored[1]

\* the dashboard tab is shown: first render with the initial state, then the
\* load effect, then the effect that exports the functions of that render
Mount ==
    /\ ~mounted
    /\ mounted' = TRUE
    /\ IF stored # <<>>
       THEN /\ stored' = <<LoadedConfig>>
            /\ config' = LoadedConfig
       ELSE /\ config' = DefaultConfig(today)
            /\ UNCHANGED stored
    /\ exported' = <<DefaultConfig(today)>>
    /\ UNCHANGED today
    /\ UNCHANGED <<fieldVars, inputVars, retryVars, salesVars>>

\* another tab is shown: nothing removes window.sequentialNumbers
Unmount ==
    /\ mounted
    /\ mounted' = FALSE
    /\ UNCHANGED <<config, exported, stored, today>>
    /\ UNCHANGED <<fieldVars, inputVars, retryVars, salesVars>>

\* React renders again after setConfig, and the effect on [config] exports
\* the functions of the new render
RenderNumbers ==
    /\ mounted
    /\ exported # <<config>>
    /\ exported' = <<config>>
    /\ UNCHANGED <<mounted, config, stored, today>>
    /\ UNCHANGED <<fieldVars, inputVars, retryVars, salesVars>>

\* incrementNumber(type), called through window.sequentialNumbers
incrementNumber(type) ==
    /\ exported # <<>>
    /\ exported[1][CounterOf(type)] < MaxNumber
    /\ LET newConfig == [exported[1] EXCEPT ![CounterOf(type)] = @ + 1]
       IN /\ config' = IF mounted THEN newConfig ELSE config
          /\ stored' = <<newConfig>>
    /\ UNCHANGED <<mounted, exported, today>>
    /\ UNCHANGED <<fieldVars, inputVars, retryVars, salesVars>>

IncrementNumber == \E type \in Types : incrementNumber(type)

\* the edit form's onChange handlers: setConfig({...config, field: value})
EditConfig ==
    /\ mounted
    /\ exported = <<config>>
    /\ \/ \E prefix \in Prefixes : config' = [config EXCEPT !.prefix = prefix]
       \/ config' = [config EXCEPT !.resetDaily = ~@]
       \/ \E type \in Types, n \in 1..MaxNumber :
              config' = [config EXCEPT ![CounterOf(type)] = n]
    /\ config' # config
    /\ UNCHANGED <<mounted, exported, stored, today>>
    /\ UNCHANGED <<fieldVars, inputVars, retryVars, salesVars>>

\* saveConfig
saveConfig ==
    /\ mounted
    /\ exported = <<config>>
    /\ stored' = <<config>>
    /\ UNCHANGED <<mounted, config, exported, today>>
    /\ UNCHANGED <<fieldVars, inputVars, retryVars, salesVars>>

\* resetNumbers
resetNumbers ==
    /\ mounted
    /\ exported = <<config>>
    /\ config' = ResetForToday(config)
    /\ stored' = <<ResetForToday(config)>>
    /\ UNCHANGED <<mounted, exported, today>>
    /\ UNCHANGED <<fieldVars, inputVars, retryVars, salesVars>>

\* midnight: new Date().toDateString() changes
DayPasses ==
    /\ today < MaxDay
    /\ today' = today + 1
    /\ UNCHANGED <<mounted, config, exported, stored>>
    /\ UNCHANGED <<fieldVars, inputVars, retryVars, salesVars>>

NextNumbers ==
    \/ Mount
    \/ Unmount
    \/ RenderNumbers
    \/ IncrementNumber
    \/ EditConfig
    \/ saveConfig
    \/ resetNumbers
    \/ DayPasses

SpecNumbers == InitNumbers /\ [][NextNumbers]_vars

-----------------------------------------------------------------------------
(* SpecSales: the sale operations of salesService, useSalesData,           *)
(* SalesManagement and Index against the remote tables and localStorage.   *)
(* Every awaited remote operation is a step of its own and may report an   *)
(* error; the code between two awaits runs within one step.  A call is     *)
(* known by its position in calls, which also names the sale it is about.  *)

\* a product id that no table and no product list holds
MissingProduct == "p9"

\* SaleItem: productId and quantity
Item(productId, quantity) == [productId |-> productId, quantity |-> quantity]

\* the carts sold
Carts ==
    {<<>>}
        \cup { <<Item(p, q)>> : p \in Products, q \in 1..MaxQty }
        \cup { <<Item(MissingProduct, 1)>> }
        \cup { <<Item(p, 1), Item(MissingProduct, 1)>> : p \in Products }

InitSales ==
    /\ input = <<>>
    /\ edits = 0
    /\ origin = "typed"
    /\ out = DocResults(<<>>)
    /\ Unmounted
    /\ RetryIdle
    /\ NumbersIdle
    /\ user \in BOOLEAN
    /\ remoteSales = {}
    /\ remoteItems = {}
    /\ remoteStock \in [Products -> 0..MaxStock]
    /\ products \in [Products -> 0..MaxStock]
    /\ salesCache = {}
    /\ indexSales = {}
    /\ hookSales = {}
    /\ notified = {}
    /\ imported = {}
    /\ calls = <<>>

\* Math.max(0, n)
Max0(n) == IF n < 0 THEN 0 ELSE n

validateStockIgnoresQuantity(productList, cartItems) ==
    \A k \in 1..Len(cartItems) : cartItems[k].productId \in DOMAIN productList

\* validateStock(products, cartItems)
validateStock(productList, cartItems) ==
    \A k \in 1..Len(cartItems) :
        /\ cartItems[k].productId \in DOMAIN productList
        /\ ~(productList[cartItems[k].productId] < cartItems[k].quantity)

\* productsToUpdate.find(p => p.productId === product.id)
FindItem(cartItems, p) ==
    LET found == { k \in 1..Len(cartItems) : cartItems[k].productId = p }
    IN IF found = {} THEN <<>>
       ELSE <<cartItems[CHOOSE k \in found : \A j \in found : k <= j]>>

\* prevProducts.map(...): Math.max(0, product.stock - saleProduct.quantity)
StockAfterSale(productList, cartItems) ==
    [p \in DOMAIN productList |->
        IF FindItem(cartItems, p) = <<>> THEN productList[p]
        ELSE Max0(productList[p] - FindItem(cartItems, p)[1].quantity)]

\* validateStock(products, cart) of useStockManagement
validateStockOfHook(productList, cartItems) == validateStock(productList, cartItems)

\* updateProductStock(products, setProducts, cart) of useStockManagement
updateProductStock(productList, cartItems) == StockAfterSale(productList, cartItems)

\* a call as it starts: kind is "service" for salesService.createSale, "sale"
\* for handleSaleCreated, "import" for a createSale of onSalesImported and
\* "delete" for deleteSale; seen and stockAtStart are the local and the remote
\* stock it started with, log lists the effects it had so far, failed says
\* whether a remote operation of it reported an error
NewCall(kind, pc, cart, target) ==
    [kind |-> kind, pc |-> pc, cart |-> cart, i |-> 0, read |-> 0,
     target |-> target, seen |-> products, stockAtStart |-> remoteStock,
     log |-> <<>>, failed |-> FALSE, outcome |-> "pending"]

\* the call is over: salesService.createSale returns true or false, the
\* functions of useSalesData return or throw, handleSaleCreated stops
Ended(rec, outcome) == [rec EXCEPT !.pc = "done", !.outcome = outcome]

\* return false of salesService.createSale, throw of useSalesData
Failure(rec) == IF rec.kind = "service" THEN "false" ELSE "thrown"

AfterAwaitIgnoringError(rec, error, effect, next) ==
    [rec EXCEPT !.log = IF error THEN @ ELSE Append(@, effect), !.pc = next,
                !.failed = @ \/ error]

\* after an awaited insert or delete: the error check that follows it
AfterAwait(rec, error, effect, next) ==
    IF error
    THEN Ended([rec EXCEPT !.failed = TRUE], Failure(rec))
    ELSE [rec EXCEPT !.log = Append(@, effect), !.pc = next]

\* the for loop over the cart goes on with item j; after the last item
\* salesService.createSale writes localStorage 'sales' and returns true,
\* createSale of useSalesData awaits loadSales, deleteSale deletes the items
Continue(c, rec, j) ==
    IF j <= Len(rec.cart)
    THEN /\ calls' = [calls EXCEPT ![c] = [rec EXCEPT !.pc = "readStock", !.i = j]]
         /\ UNCHANGED salesCache
    ELSE IF rec.kind = "service"
    THEN /\ calls' = [calls EXCEPT ![c] =
                        Ended([rec EXCEPT !.log = Append(@, "cache")], "true")]
         /\ salesCache' = salesCache \cup {c}
    ELSE /\ calls' = [calls EXCEPT ![c] =
                        [rec EXCEPT !.pc = IF rec.kind = "delete"
                                           THEN "deleteItems" ELSE "loadSales"]]
         /\ UNCHANGED salesCache

\* salesService.createSale(sale), up to await supabase.auth.getUser()
createSaleOfService ==
    /\ Len(calls) < MaxCalls
    /\ \E cart \in Carts :
          calls' = Append(calls, NewCall("service", "getUser", cart, 0))
    /\ UNCHANGED <<user, remoteSales, remoteItems, remoteStock, products,
                   salesCache, indexSales, hookSales, notified, imported>>
    /\ UNCHANGED <<fieldVars, inputVars, retryVars, numbersVars>>

\* getUser answers: return false without a user, and from the catch block
GetUser(c) ==
    /\ calls[c].pc = "getUser"
    /\ \E error \in BOOLEAN :
          calls' = [calls EXCEPT ![c] =
                      IF error THEN Ended([@ EXCEPT !.failed = TRUE], "false")
                      ELSE IF ~user THEN Ended(@, "false")
                      ELSE [@ EXCEPT !.pc = "insertSale"]]
    /\ UNCHANGED <<user, remoteSales, remoteItems, remoteStock, products,
                   salesCache, indexSales, hookSales, notified, imported>>
    /\ UNCHANGED <<fieldVars, inputVars, retryVars, numbersVars>>

\* handleSaleCreated(newSale), up to the await within createSale of
\* useSalesData: validateStock, then if (!user) throw
handleSaleCreated ==
    /\ Len(calls) < MaxCalls
    /\ \E cart \in Carts :
          LET rec == NewCall("sale", "insertSale", cart, 0)
          IN calls' = Append(calls,
                        IF ~validateStockOfHook(products, cart) THEN Ended(rec, "stopped")
                        ELSE IF ~user THEN Ended(rec, "thrown")
                        ELSE rec)
    /\ UNCHANGED <<user, remoteSales, remoteItems, remoteStock, products,
                   salesCache, indexSales, hookSales, notified, imported>>
    /\ UNCHANGED <<fieldVars, inputVars, retryVars, numbersVars>>

\* the createSale calls that newSales.forEach starts for these carts
RECURSIVE ImportCalls(_)
ImportCalls(carts) ==
    IF carts = <<>> THEN <<>>
    ELSE LET rec == NewCall("import", "insertSale", carts[1], 0)
         IN <<IF ~user THEN Ended(rec, "thrown") ELSE rec>>
                \o ImportCalls(Tail(carts))

\* onSalesImported(newSales): localStorage 'sales' first, then a createSale
\* for each sale, none awaited
onSalesImported ==
    /\ \E n \in 1..(MaxCalls - Len(calls)) :
          \E carts \in [1..n -> Carts] :
             /\ calls' = calls \o ImportCalls(carts)
             /\ salesCache' = salesCache \cup ((Len(calls) + 1)..(Len(calls) + n))
             /\ imported' = imported \cup ((Len(calls) + 1)..(Len(calls) + n))
    /\ UNCHANGED <<user, remoteSales, remoteItems, remoteStock, products,
                   indexSales, hookSales, notified>>
    /\ UNCHANGED <<fieldVars, inputVars, retryVars, numbersVars>>

\* the insert into sales answers
InsertSale(c) ==
    /\ calls[c].pc = "insertSale"
    /\ \E error \in BOOLEAN :
          LET rec == AfterAwait(calls[c], error, "insertSale", "insertItems")
          IN /\ remoteSales' = IF error THEN remoteSales ELSE remoteSales \cup {c}
             /\ IF rec.pc # "done" /\ rec.kind = "service" /\ rec.cart = <<>>
                THEN Continue(c, rec, 1)
                ELSE /\ calls' = [calls EXCEPT ![c] = rec]
                     /\ UNCHANGED salesCache
    /\ UNCHANGED <<user, remoteItems, remoteStock, products,
                   indexSales, hookSales, notified, imported>>
    /\ UNCHANGED <<fieldVars, inputVars, retryVars, numbersVars>>

\* the insert into sale_items answers
InsertItems(c) ==
    /\ calls[c].pc = "insertItems"
    /\ \E error \in BOOLEAN :
          LET rec == AfterAwait(calls[c], error, "insertItems", "readStock")
          IN /\ remoteItems' = IF error THEN remoteItems ELSE remoteItems \cup {c}
             /\ IF rec.pc # "done"
                THEN Continue(c, rec, 1)
                ELSE /\ calls' = [calls EXCEPT ![c] = rec]
                     /\ UNCHANGED salesCache
    /\ UNCHANGED <<user, remoteSales, remoteStock, products,
                   indexSales, hookSales, notified, imported>>
    /\ UNCHANGED <<fieldVars, inputVars, retryVars, numbersVars>>

\* select('stock') of the item's product answers: without a row the loop
\* goes on to the next item
ReadStock(c) ==
    /\ calls[c].pc = "readStock"
    /\ \E error \in BOOLEAN :
          LET rec == calls[c]
              p == rec.cart[rec.i].productId
          IN IF error \/ p \notin DOMAIN remoteStock
             THEN Continue(c, [rec EXCEPT !.failed = @ \/ error], rec.i + 1)
             ELSE /\ calls' = [calls EXCEPT ![c] =
                                 [rec EXCEPT !.pc = "writeStock",
                                             !.read = remoteStock[p]]]
                  /\ UNCHANGED salesCache
    /\ UNCHANGED <<user, remoteSales, remoteItems, remoteStock, products,
                   indexSales, hookSales, notified, imported>>
    /\ UNCHANGED <<fieldVars, inputVars, retryVars, numbersVars>>

\* newStock: Math.max(0, product.stock - item.quantity) in createSale,
\* product.stock + item.quantity in deleteSale
NewStock(rec) ==
    IF rec.kind = "delete"
    THEN rec.read + rec.cart[rec.i].quantity
    ELSE Max0(rec.read - rec.cart[rec.i].quantity)

\* update({ stock: newStock }) answers: an error is only logged
WriteStock(c) ==
    /\ calls[c].pc = "writeStock"
    /\ \E error \in BOOLEAN :
          LET rec == calls[c]
              p == rec.cart[rec.i].productId
          IN /\ remoteStock' = IF error THEN remoteStock
                               ELSE [remoteStock EXCEPT ![p] = NewStock(rec)]
             /\ Continue(c, IF error THEN [rec EXCEPT !.failed = TRUE]
                            ELSE [rec EXCEPT !.log = Append(@, "writeStock")],
                         rec.i + 1)
    /\ UNCHANGED <<user, remoteSales, remoteItems, products,
                   indexSales, hookSales, notified, imported>>
    /\ UNCHANGED <<fieldVars, inputVars, retryVars, numbersVars>>

\* loadSales answers and createSale of useSalesData returns.  For
\* handleSaleCreated the rest follows: localStorage 'sales', updateProductStock,
\* onSaleCreated, which is handleSaleCreated of Index, and after the render
\* the effect of Index that saves its sales state to localStorage 'sales'
LoadSales(c) ==
    /\ calls[c].pc = "loadSales"
    /\ \E error \in BOOLEAN :
          hookSales' = IF error THEN hookSales ELSE remoteSales
    /\ IF calls[c].kind = "sale"
       THEN /\ calls' = [calls EXCEPT ![c] =
                Ended([@ EXCEPT !.log = @ \o <<"cache", "updateProductStock",
                                               "onSaleCreated">>], "returned")]
            /\ indexSales' = indexSales \cup {c}
            /\ salesCache' = indexSales \cup {c}
            /\ products' = StockAfterSale(updateProductStock(products, calls[c].cart),
                                          calls[c].cart)
            /\ notified' = notified \cup {c}
       ELSE /\ calls' = [calls EXCEPT ![c] = Ended(@, "returned")]
            /\ UNCHANGED <<indexSales, salesCache, products, notified>>
    /\ UNCHANGED <<user, remoteSales, remoteItems, remoteStock, imported>>
    /\ UNCHANGED <<fieldVars, inputVars, retryVars, numbersVars>>

\* deleteSale(saleId) for a sale of the list, up to the select of its items
deleteSale ==
    /\ Len(calls) < MaxCalls
    /\ user
    /\ \E saleId \in hookSales :
          calls' = Append(calls, NewCall("delete", "selectItems", <<>>, saleId))
    /\ UNCHANGED <<user, remoteSales, remoteItems, remoteStock, products,
                   salesCache, indexSales, hookSales, notified, imported>>
    /\ UNCHANGED <<fieldVars, inputVars, retryVars, numbersVars>>

\* the select of the sale's items answers
SelectItems(c) ==
    /\ calls[c].pc = "selectItems"
    /\ \E error \in BOOLEAN :
          LET saleItems == IF calls[c].target \in remoteItems
                           THEN calls[calls[c].target].cart ELSE <<>>
          IN IF error
             THEN /\ calls' = [calls EXCEPT ![c] =
                                 Ended([@ EXCEPT !.failed = TRUE], "thrown")]
                  /\ UNCHANGED salesCache
             ELSE Continue(c, [calls[c] EXCEPT !.cart = saleItems], 1)
    /\ UNCHANGED <<user, remoteSales, remoteItems, remoteStock, products,
                   indexSales, hookSales, notified, imported>>
    /\ UNCHANGED <<fieldVars, inputVars, retryVars, numbersVars>>

\* the delete from sale_items answers
DeleteItems(c) ==
    /\ calls[c].pc = "deleteItems"
    /\ \E error \in BOOLEAN :
          /\ calls' = [calls EXCEPT ![c] =
                         AfterAwait(@, error, "deleteItems", "deleteSale")]
          /\ remoteItems' = IF error THEN remoteItems
                            ELSE remoteItems \ {calls[c].target}
    /\ UNCHANGED <<user, remoteSales, remoteStock, products,
                   salesCache, indexSales, hookSales, notified, imported>>
    /\ UNCHANGED <<fieldVars, inputVars, retryVars, numbersVars>>

\* the delete from sales answers; then setSales(prev => prev.filter(...))
DeleteSaleRow(c) ==
    /\ calls[c].pc = "deleteSale"
    /\ \E error \in BOOLEAN :
          LET rec == AfterAwait(calls[c], error, "deleteSale", "done")
          IN /\ calls' = [calls EXCEPT ![c] =
                            IF error THEN rec
                            ELSE Ended([rec EXCEPT !.log = Append(@, "setSales")],
                                       "returned")]
             /\ remoteSales' = IF error THEN remoteSales
                               ELSE remoteSales \ {calls[c].target}
             /\ hookSales' = IF error THEN hookSales
                             ELSE hookSales \ {calls[c].target}
    /\ UNCHANGED <<user, remoteItems, remoteStock, products,
                   salesCache, indexSales, notified, imported>>
    /\ UNCHANGED <<fieldVars, inputVars, retryVars, numbersVars>>

NextSales ==
    \/ createSaleOfService
    \/ handleSaleCreated
    \/ onSalesImported
    \/ deleteSale
    \/ \E c \in 1..Len(calls) : GetUser(c)
    \/ \E c \in 1..Len(calls) : InsertSale(c)
    \/ \E c \in 1..Len(calls) : InsertItems(c)
    \/ \E c \in 1..Len(calls) : ReadStock(c)
    \/ \E c \in 1..Len(calls) : WriteStock(c)
    \/ \E c \in 1..Len(calls) : LoadSales(c)
    \/ \E c \in 1..Len(calls) : SelectItems(c)
    \/ \E c \in 1..Len(calls) : DeleteItems(c)
    \/ \E c \in 1..Len(calls) : DeleteSaleRow(c)

SpecSales == InitSales /\ [][NextSales]_vars

-----------------------------------------------------------------------------
(* The identifier rules as stated, and what is checked of the validators.  *)

\* positions of input that hold a digit
DigitPositions(s) == {p \in 1..Len(s) : IsDigit(s[p])}

\* which digit of s, counted from 1, stands at position p
DigitIndex(s, p) == Cardinality({q \in 1..p : IsDigit(s[q])})

\* s with the digit at position p replaced by d
Replaced(s, p, d) == [s EXCEPT ![p] = d]

Distance(a, b) == IF a > b THEN a - b ELSE b - a

AllSame(ds) == \A k \in 1..Len(ds) : ds[k] = ds[1]

\* the stated rule for a CPF: 11 digits, not all identical, both check digits right
StatedCpfValid(s) ==
    LET ds == DigitsOf(s)
    IN  /\ Len(ds) = 11
        /\ ~AllSame(ds)
        /\ ds[10] = CpfCheckDigit(ds, 9)
        /\ ds[11] = CpfCheckDigit(ds, 10)

\* the stated rule for a CNPJ: 14 digits, not all identical, both check digits right
StatedCnpjValid(s) ==
    LET ds == DigitsOf(s)
    IN  /\ Len(ds) = 14
        /\ ~AllSame(ds)
        /\ ds[13] = CnpjCheckDigit(ds, CnpjWeights12)
        /\ ds[14] = CnpjCheckDigit(ds, CnpjWeights13)

\* the digit string of length n that is "1" at position k and "0" elsewhere
UnitDigits(k, n) == [j \in 1..n |-> IF j = k THEN "1" ELSE "0"]

\* C1: validateCPF returns true exactly when the cleaned input has 11 digits
\* that are not all identical and whose 10th and 11th digits are the check
\* digits (sum * 10) mod 11 mod 10 under the weights 10..2 and 11..2; every
\* other input, the empty string and punctuated inputs included, is rejected.
C1_ValidateCpfIsStatedRule == out.validateCPF = StatedCpfValid(input)

\* a punctuated input that validateCPF accepts
C1_Witness ==
    /\ out.validateCPF
    /\ Len(input) > Len(CleanDigits(input))

\* C2: validateCNPJ returns true exactly when the cleaned input has 14 digits,
\* is not one of the ten same-digit strings, and its 13th and 14th digits are
\* the check digits under the weights 5,4,3,2,9,8,7,6,5,4,3,2 and
\* 6,5,4,3,2,9,8,7,6,5,4,3,2; the loop with the running weight pos, wrapping
\* from below 2 to 9, produces exactly these weights.
C2_ValidateCnpjIsStatedRule ==
    /\ out.validateCNPJ = StatedCnpjValid(input)
    /\ \A k \in 1..12 : CnpjLoop(UnitDigits(k, 12), 12, 12, 12 - 7, 0) = CnpjWeights12[k]
    /\ \A k \in 1..13 : CnpjLoop(UnitDigits(k, 13), 13, 13, 13 - 7, 0) = CnpjWeights13[k]

\* a punctuated input that validateCNPJ accepts
C2_Witness ==
    /\ out.validateCNPJ
    /\ Len(input) > Len(CleanDigits(input))

\* C3 as stated: replacing any single digit of a valid CPF by a different
\* digit yields a string that validateCPF rejects.
C3_AnyReplacementRejected ==
    out.validateCPF =>
        \A p \in DigitPositions(input) : \A d \in DigitChars \ {input[p]} :
            ~validateCPF(Replaced(input, p, d))

\* C3 as amended: replacing a single digit of a valid CPF by a different digit
\* yields a string that validateCPF rejects, unless the 1st digit is changed by
\* exactly 1 or the 6th digit by exactly 2 or 9.
C3_ReplacementRejectedButFirstAndSixth ==
    out.validateCPF =>
        \A p \in DigitPositions(input) : \A d \in DigitChars \ {input[p]} :
            validateCPF(Replaced(input, p, d)) =>
                \/ /\ DigitIndex(input, p) = 1
                   /\ Distance(DigitVal(d), DigitVal(input[p])) = 1
                \/ /\ DigitIndex(input, p) = 6
                   /\ Distance(DigitVal(d), DigitVal(input[p])) \in {2, 9}

\* a valid CPF, itself the result of overwriting a digit, of which one
\* replacement is rejected and another, of the 6th digit, is accepted
C3_Witness ==
    /\ out.validateCPF
    /\ \E p \in DigitPositions(input) : \E d \in DigitChars \ {input[p]} :
          ~validateCPF(Replaced(input, p, d))
    /\ \E p \in DigitPositions(input) : \E d \in DigitChars \ {input[p]} :
          /\ DigitIndex(input, p) = 6
          /\ validateCPF(Replaced(input, p, d))

\* C4 as stated: replacing any single digit of a valid CNPJ by a different
\* digit yields a string that validateCNPJ rejects.
C4_AnyReplacementRejected ==
    out.validateCNPJ =>
        \A p \in DigitPositions(input) : \A d \in DigitChars \ {input[p]} :
            ~validateCNPJ(Replaced(input, p, d))

\* C4 as amended: replacing a single digit of a valid CNPJ by a different
\* digit yields a string that validateCNPJ rejects, unless the 1st or the 9th
\* digit is changed by exactly 2 or 9, or the 5th digit by exactly 5 or 6.
C4_ReplacementRejectedButFirstFifthNinth ==
    out.validateCNPJ =>
        \A p \in DigitPositions(input) : \A d \in DigitChars \ {input[p]} :
            validateCNPJ(Replaced(input, p, d)) =>
                \/ /\ DigitIndex(input, p) \in {1, 9}
                   /\ Distance(DigitVal(d), DigitVal(input[p])) \in {2, 9}
                \/ /\ DigitIndex(input, p) = 5
                   /\ Distance(DigitVal(d), DigitVal(input[p])) \in {5, 6}

\* a valid CNPJ of which one replacement is rejected and another, of the 5th
\* digit, is accepted
C4_Witness ==
    /\ out.validateCNPJ
    /\ \E p \in DigitPositions(input) : \E d \in DigitChars \ {input[p]} :
          ~validateCNPJ(Replaced(input, p, d))
    /\ \E p \in DigitPositions(input) : \E d \in DigitChars \ {input[p]} :
          /\ DigitIndex(input, p) = 5
          /\ validateCNPJ(Replaced(input, p, d))

\* C5 as stated: any 9 base digits followed by the two check digits computed
\* from them are accepted by validateCPF.
C5_GeneratedCpfAccepted == origin = "generatedCPF" => out.validateCPF

\* C5 as amended: any 9 base digits that are not all the same digit, followed
\* by the two check digits computed from them, are accepted by validateCPF.
C5_GeneratedCpfAcceptedUnlessSameDigit ==
    (origin = "generatedCPF" /\ ~AllSame(SubSeq(input, 1, 9))) => out.validateCPF

\* a generated CPF with a non-zero check digit that validateCPF accepts
C5_Witness ==
    /\ origin = "generatedCPF"
    /\ ~AllSame(SubSeq(input, 1, 9))
    /\ input[10] # "0"
    /\ out.validateCPF

\* C6 as stated: any 12 base digits followed by the two check digits computed
\* from them are accepted by validateCNPJ.
C6_GeneratedCnpjAccepted == origin = "generatedCNPJ" => out.validateCNPJ

\* C6 as amended: any 12 base digits that are not all zero, followed by the
\* two check digits computed from them, are accepted by validateCNPJ.
C6_GeneratedCnpjAcceptedUnlessZero ==
    (origin = "generatedCNPJ" /\ SubSeq(input, 1, 12) # Repeat("0", 12)) => out.validateCNPJ

\* a generated CNPJ, its 12 base digits all the same digit, that validateCNPJ accepts
C6_Witness ==
    /\ origin = "generatedCNPJ"
    /\ AllSame(SubSeq(input, 1, 12))
    /\ out.validateCNPJ

\* C7: validateCPF rejects each of the 10 strings of 11 identical digits and
\* validateCNPJ each of the 10 strings of 14 identical digits, whatever
\* punctuation is mixed into the input.
C7_SameDigitRejected ==
    /\ (Len(CleanDigits(input)) = 11 /\ AllSame(CleanDigits(input))) => ~out.validateCPF
    /\ (Len(CleanDigits(input)) = 14 /\ AllSame(CleanDigits(input))) => ~out.validateCNPJ

\* fourteen 9s with punctuation mixed in, rejected
C7_Witness ==
    /\ CleanDigits(input) = Repeat("9", 14)
    /\ Len(input) > 14
    /\ ~out.validateCNPJ

\* C8: validateDocument classifies by the number of digits left after
\* cleaning: 11 gives type CPF with isValid = validateCPF(input), 14 gives
\* type CNPJ with isValid = validateCNPJ(input), any other length gives
\* isValid = false with type null; so isValid implies a type, and the type is
\* null exactly when the length is neither 11 nor 14.
C8_DocumentClassifiedByLength ==
    LET n == Len(CleanDigits(input))
        r == out.validateDocument
    IN  /\ n = 11 => (r.type = "CPF" /\ r.isValid = StatedCpfValid(input))
        /\ n = 14 => (r.type = "CNPJ" /\ r.isValid = StatedCnpjValid(input))
        /\ n \notin {11, 14} => (~r.isValid /\ r.type = "null")
        /\ r.isValid => r.type # "null"
        /\ r.type = "null" <=> n \notin {11, 14}

\* a punctuated 14-digit input classified as a valid CNPJ
C8_Witness ==
    /\ Len(CleanDigits(input)) = 14
    /\ Len(input) > 14
    /\ out.validateDocument.type = "CNPJ"
    /\ out.validateDocument.isValid

\* a JavaScript string, or a message: a finite sequence of pieces of text
IsString(s) == \A k \in 1..Len(s) : s[k] \in STRING

\* { isValid: boolean; message: string }
IsFieldResult(r) ==
    /\ DOMAIN r = {"isValid", "message"}
    /\ r.isValid \in BOOLEAN
    /\ IsString(r.message)

\* { isValid: boolean; type: 'CPF' | 'CNPJ' | null; message: string }
IsDocumentResult(r) ==
    /\ DOMAIN r = {"isValid", "type", "message"}
    /\ r.isValid \in BOOLEAN
    /\ r.type \in {"CPF", "CNPJ", "null"}
    /\ IsString(r.message)

\* C9: for every result of validateRequired and validateNumber, and for every
\* result ValidationInput builds for the phone, email, currency, number and
\* required types, the message is empty exactly when isValid is true; only the
\* document validator returns a non-empty message together with isValid = true.
C9_MessageEmptyExactlyWhenValid ==
    /\ \A f \in FieldNames :
          (out.validateRequired[f].message = <<>>) <=> out.validateRequired[f].isValid
    /\ \A m \in Mins, x \in Maxes :
          (out.validateNumber[m, x].message = <<>>) <=> out.validateNumber[m, x].isValid
    /\ \A vt \in {"phone", "email", "currency", "number", "required"},
          r \in BOOLEAN, l \in Labels :
          (out.validation[vt, r, l].message = <<>>) <=> out.validation[vt, r, l].isValid
    /\ out.validateDocument.message # <<>>
    /\ \A r \in BOOLEAN, l \in Labels :
          (Trim(out.formatDocument) # <<>>) => out.validation["document", r, l].message # <<>>

\* a valid document in the field: its verdict carries a message, the number
\* verdict is valid without one, the phone verdict invalid with one
C9_Witness ==
    /\ out.validateDocument.isValid
    /\ out.validation["document", TRUE, <<>>].isValid
    /\ out.validation["document", TRUE, <<>>].message # <<>>
    /\ out.validateNumber[0, <<>>].isValid
    /\ ~out.validation["phone", FALSE, <<>>].isValid
    /\ out.validation["phone", FALSE, <<>>].message # <<>>

\* C10: every validator and formatter of validationUtils returns a value of
\* its declared shape for every string input (empty, too short, too long,
\* non-numeric, punctuation only); malformed input yields a negative result.
C10_EveryFunctionReturnsItsShape ==
    /\ out.validateCPF \in BOOLEAN
    /\ out.validateCNPJ \in BOOLEAN
    /\ IsDocumentResult(out.validateDocument)
    /\ out.validatePhone \in BOOLEAN
    /\ out.validateEmail \in BOOLEAN
    /\ out.validateCurrency \in BOOLEAN
    /\ \A f \in FieldNames : IsFieldResult(out.validateRequired[f])
    /\ \A m \in Mins, x \in Maxes : IsFieldResult(out.validateNumber[m, x])
    /\ IsString(out.formatCPF)
    /\ IsString(out.formatCNPJ)
    /\ IsString(out.formatDocument)
    /\ IsString(out.formatPhone)
    /\ Len(CleanDigits(input)) # 11 => ~out.validateCPF
    /\ Len(CleanDigits(input)) # 14 => ~out.validateCNPJ
    /\ Len(CleanDigits(input)) \notin {11, 14} => ~out.validateDocument.isValid
    /\ Len(CleanDigits(input)) \notin {10, 11} => ~out.validatePhone
    /\ CleanDigits(input) = <<>> =>
          (~out.validateCurrency /\ \A m \in Mins, x \in Maxes : ~out.validateNumber[m, x].isValid)

\* punctuation only: every validator answers, and answers no
C10_Witness ==
    /\ Len(input) > 1
    /\ CleanDigits(input) = <<>>
    /\ Trim(input) # <<>>
    /\ ~out.validateCPF
    /\ ~out.validateDocument.isValid
    /\ ~out.validateNumber[0, <<>>].isValid
    /\ out.formatDocument = <<>>

-----------------------------------------------------------------------------
(* The formatters.                                                         *)

\* the patterns as they are written, D standing for a digit
CpfPattern ==
    <<"D", "D", "D", ".", "D", "D", "D", ".", "D", "D", "D", "-", "D", "D">>
CnpjPattern ==
    <<"D", "D", ".", "D", "D", "D", ".", "D", "D", "D", "/", "D", "D", "D", "D", "-", "D", "D">>
Phone10Pattern ==
    <<"(", "D", "D", ")", " ", "D", "D", "D", "D", "-", "D", "D", "D", "D">>
Phone11Pattern ==
    <<"(", "D", "D", ")", " ", "D", "D", "D", "D", "D", "-", "D", "D", "D", "D">>

\* the pattern with its k-th D replaced by the k-th digit of ds
FillPattern(pattern, ds) ==
    [k \in 1..Len(pattern) |->
        IF pattern[k] = "D"
        THEN ds[Cardinality({j \in 1..k : pattern[j] = "D"})]
        ELSE pattern[k]]

\* the first n characters of s, and what follows them
FirstChars(s, n) == SubSeq(s, 1, n)
Rest(s, n) == SubSeq(s, n + 1, Len(s))

\* C11: formatCPF of an input with exactly 11 digits is DDD.DDD.DDD-DD,
\* formatCNPJ of an input with exactly 14 digits is DD.DDD.DDD/DDDD-DD, the
\* digits in input order; formatDocument is formatCPF when the cleaned length
\* is at most 11 and formatCNPJ otherwise; an input whose check digits are
\* wrong is formatted the same way.
C11_FormattersFillTheirPattern ==
    /\ Len(CleanDigits(input)) = 11 =>
          out.formatCPF = FillPattern(CpfPattern, CleanDigits(input))
    /\ Len(CleanDigits(input)) = 14 =>
          out.formatCNPJ = FillPattern(CnpjPattern, CleanDigits(input))
    /\ out.formatDocument =
          IF Len(CleanDigits(input)) <= 11 THEN out.formatCPF ELSE out.formatCNPJ

\* eleven digits with punctuation among them and wrong check digits, formatted
C11_Witness ==
    /\ Len(CleanDigits(input)) = 11
    /\ Len(input) > 11
    /\ ~out.validateCPF
    /\ ~AllSame(CleanDigits(input))
    /\ out.formatDocument = FillPattern(CpfPattern, CleanDigits(input))

\* C12 as stated: formatting is idempotent under re-cleaning, for formatCPF
\* on 11 digits, formatCNPJ on 14 digits, and formatDocument and formatPhone
\* on every input; a formatter applied to its own output changes nothing.
C12_IdempotentUnderRecleaning ==
    /\ Len(CleanDigits(input)) = 11 =>
          formatCPF(CleanDigits(out.formatCPF)) = out.formatCPF
    /\ Len(CleanDigits(input)) = 14 =>
          formatCNPJ(CleanDigits(out.formatCNPJ)) = out.formatCNPJ
    /\ formatDocument(CleanDigits(out.formatDocument)) = out.formatDocument
    /\ formatPhone(CleanDigits(out.formatPhone)) = out.formatPhone
    /\ formatCPF(out.formatCPF) = out.formatCPF
    /\ formatCNPJ(out.formatCNPJ) = out.formatCNPJ
    /\ formatDocument(out.formatDocument) = out.formatDocument
    /\ formatPhone(out.formatPhone) = out.formatPhone

\* C12: the same, formatPhone being idempotent under re-cleaning for every
\* input that has 10 or 11 digits or holds nothing but digits.
C12_IdempotentUnderRecleaningOfPhoneDigits ==
    /\ Len(CleanDigits(input)) = 11 =>
          formatCPF(CleanDigits(out.formatCPF)) = out.formatCPF
    /\ Len(CleanDigits(input)) = 14 =>
          formatCNPJ(CleanDigits(out.formatCNPJ)) = out.formatCNPJ
    /\ formatDocument(CleanDigits(out.formatDocument)) = out.formatDocument
    /\ (Len(CleanDigits(input)) \in {10, 11} \/ CleanDigits(input) = input) =>
          formatPhone(CleanDigits(out.formatPhone)) = out.formatPhone
    /\ formatCPF(out.formatCPF) = out.formatCPF
    /\ formatCNPJ(out.formatCNPJ) = out.formatCNPJ
    /\ formatDocument(out.formatDocument) = out.formatDocument
    /\ formatPhone(out.formatPhone) = out.formatPhone

\* a phone of 10 digits written with punctuation: formatted, cleaned again
\* and formatted again it is the same
C12_Witness ==
    /\ Len(CleanDigits(input)) = 10
    /\ Len(input) > 10
    /\ out.formatPhone # input
    /\ CleanDigits(out.formatPhone) # out.formatPhone
    /\ formatPhone(CleanDigits(out.formatPhone)) = out.formatPhone

\* C13: with fewer than 11 (formatCPF) or 14 (formatCNPJ) digits the result
\* is the cleaned digits without separators; with more, the first 11 or 14
\* are formatted and the remaining digits follow unchanged; the digits of the
\* output are always the digits of the input, in order.
C13_NoDigitDroppedOrMoved ==
    /\ Len(CleanDigits(input)) < 11 => out.formatCPF = CleanDigits(input)
    /\ Len(CleanDigits(input)) > 11 =>
          out.formatCPF = FillPattern(CpfPattern, FirstChars(CleanDigits(input), 11))
                          \o Rest(CleanDigits(input), 11)
    /\ Len(CleanDigits(input)) < 14 => out.formatCNPJ = CleanDigits(input)
    /\ Len(CleanDigits(input)) > 14 =>
          out.formatCNPJ = FillPattern(CnpjPattern, FirstChars(CleanDigits(input), 14))
                           \o Rest(CleanDigits(input), 14)
    /\ CleanDigits(out.formatCPF) = CleanDigits(input)
    /\ CleanDigits(out.formatCNPJ) = CleanDigits(input)
    /\ CleanDigits(out.formatDocument) = CleanDigits(input)

\* fifteen digits: too many for either pattern, and none is lost
C13_Witness ==
    /\ Len(CleanDigits(input)) = 15
    /\ Len(out.formatCPF) = 18
    /\ Len(out.formatCNPJ) = 19
    /\ out.formatDocument = out.formatCNPJ

\* C14: formatPhone returns (DD) DDDD-DDDD for exactly 10 digits after
\* cleaning, (DD) DDDDD-DDDD for exactly 11, and otherwise the original input
\* unchanged, its non-digit characters included.
C14_PhonePatternOrUnchanged ==
    /\ Len(CleanDigits(input)) = 10 =>
          out.formatPhone = FillPattern(Phone10Pattern, CleanDigits(input))
    /\ Len(CleanDigits(input)) = 11 =>
          out.formatPhone = FillPattern(Phone11Pattern, CleanDigits(input))
    /\ Len(CleanDigits(input)) \notin {10, 11} => out.formatPhone = input

\* a string with a non-digit character and too few digits comes back as it is
C14_Witness ==
    /\ Len(CleanDigits(input)) \in 1..9
    /\ CleanDigits(input) # input
    /\ out.formatPhone = input

-----------------------------------------------------------------------------
(* The field validators.                                                   *)

\* s is written after the pattern: a digit where it has a D, its own
\* character everywhere else
MatchesPattern(s, pattern) ==
    /\ Len(s) = Len(pattern)
    /\ \A k \in 1..Len(pattern) :
          IF pattern[k] = "D" THEN IsDigit(s[k]) ELSE s[k] = pattern[k]

\* C15: validatePhone is true exactly when the input has 10 or 11 digits once
\* the non-digit characters are removed, which is exactly when formatPhone
\* returns one of its two patterns.
C15_PhoneValidIffTenOrEleven ==
    /\ out.validatePhone <=> Len(CleanDigits(input)) \in {10, 11}
    /\ out.validatePhone <=>
          \/ MatchesPattern(out.formatPhone, Phone10Pattern)
          \/ MatchesPattern(out.formatPhone, Phone11Pattern)

\* eleven digits among other characters: valid, and rewritten
C15_Witness ==
    /\ Len(CleanDigits(input)) = 11
    /\ Len(input) > 11
    /\ out.validatePhone
    /\ out.formatPhone # input
    /\ MatchesPattern(out.formatPhone, Phone11Pattern)

\* positions of the character c in s
PositionsOf(s, c) == {k \in 1..Len(s) : s[k] = c}

\* no white space, exactly one '@' with something before it, and after the
\* '@' a '.' that is neither the first nor the last character of that part
StatedEmailValid(s) ==
    /\ PositionsOf(s, " ") = {}
    /\ Cardinality(PositionsOf(s, "@")) = 1
    /\ \A a \in PositionsOf(s, "@") :
          /\ a > 1
          /\ \E d \in PositionsOf(s, ".") : a + 1 < d /\ d < Len(s)

\* C16: validateEmail is true exactly when the string has no white space, has
\* exactly one '@' with at least one character before it, and the part after
\* the '@' has a '.' that is neither its first nor its last character.
C16_EmailValidIffStatedShape == out.validateEmail <=> StatedEmailValid(input)

\* an address longer than the worked example, accepted
C16_Witness ==
    /\ Len(input) > 6
    /\ out.validateEmail
    /\ Cardinality(PositionsOf(input, ".")) > 1

\* an optional minus sign followed by one to four digits and nothing else
IsPlainInteger(s) ==
    /\ Len(s) > 0
    /\ LET u == IF s[1] = "-" THEN Tail(s) ELSE s
       IN  Len(u) \in 1..4 /\ \A k \in 1..Len(u) : IsDigit(u[k])

\* the integer a run of digits writes
RECURSIVE DecimalValue(_, _)
DecimalValue(ds, n) ==
    IF n = 0 THEN 0 ELSE DecimalValue(ds, n - 1) * 10 + DigitVal(ds[n])

PlainValue(s) ==
    IF s[1] = "-" THEN 0 - DecimalValue(Tail(s), Len(s) - 1)
    ELSE DecimalValue(s, Len(s))

\* the text m is one of the pieces of the message
Mentions(message, m) == \E k \in 1..Len(message) : message[k] = m

\* C17: validateNumber is invalid with 'Valor deve ser um numero valido' when
\* the value does not parse, invalid with a message that holds min when the
\* number is below min (whatever max is: the minimum is checked first),
\* invalid with a message that holds max when max is given and the number is
\* above it, and valid with an empty message otherwise; a value equal to min
\* or to max is valid; with min > max every value is rejected.
C17_NumberWithinInclusiveBounds ==
    \A m \in Mins, x \in Maxes :
        /\ ParseFloat(input).nan =>
              out.validateNumber[m, x] =
                 [isValid |-> FALSE, message |-> <<"Valor deve ser um numero valido">>]
        /\ (~ParseFloat(input).nan /\ NumLess(ParseFloat(input), m)) =>
              /\ ~out.validateNumber[m, x].isValid
              /\ Mentions(out.validateNumber[m, x].message, ToString(m))
              /\ Mentions(out.validateNumber[m, x].message, "Valor minimo e ")
        /\ (~ParseFloat(input).nan /\ ~NumLess(ParseFloat(input), m)
               /\ x # <<>> /\ NumGreater(ParseFloat(input), x[1])) =>
              /\ ~out.validateNumber[m, x].isValid
              /\ Mentions(out.validateNumber[m, x].message, ToString(x[1]))
        /\ (~ParseFloat(input).nan /\ ~NumLess(ParseFloat(input), m)
               /\ (x = <<>> \/ ~NumGreater(ParseFloat(input), x[1]))) =>
              out.validateNumber[m, x] = [isValid |-> TRUE, message |-> <<>>]
        /\ IsPlainInteger(input) =>
              (out.validateNumber[m, x].isValid <=>
                  /\ m <= PlainValue(input)
                  /\ x # <<>> => PlainValue(input) <= x[1])
        /\ (x # <<>> /\ m > x[1]) => ~out.validateNumber[m, x].isValid

\* the value 5: valid against the maximum 5, and with min 10 and max 1, both
\* missed, it is the minimum that the message names
C17_Witness ==
    /\ IsPlainInteger(input)
    /\ PlainValue(input) = 5
    /\ out.validateNumber[0, <<5>>] = [isValid |-> TRUE, message |-> <<>>]
    /\ out.validateNumber[10, <<1>>].message = <<"Valor minimo e ", "10">>
    /\ out.validateNumber[0, <<1>>].message = <<"Valor maximo e ", "1">>

\* a digit, '.' or ','
IsDigitDotOrComma(c) == c \in DigitChars \cup {".", ","}

\* what parseFloat needs of a string of digits, dots and commas whose first
\* comma reads as a dot: a digit first, or a digit right after a leading
\* dot or comma; such a number has no sign
StatedCurrencyValid(s) ==
    LET kept == SelectSeq(s, IsDigitDotOrComma)
    IN  /\ Len(kept) > 0
        /\ \/ IsDigit(kept[1])
           \/ Len(kept) > 1 /\ IsDigit(kept[2])

\* C18: validateCurrency is true exactly when what is left of the string
\* after removing every character other than digits, '.' and ',' and
\* replacing a decimal comma by a dot parses as a number, which is then not
\* negative; an input with no digit is invalid.
C18_CurrencyValidIffKeptPartParses ==
    /\ out.validateCurrency <=> StatedCurrencyValid(input)
    /\ CleanDigits(input) = <<>> => ~out.validateCurrency

\* a minus sign before the digits is removed with the other characters
C18_Witness ==
    /\ Len(input) > 1
    /\ input[1] = "-"
    /\ out.validateCurrency
    /\ ~out.validateNumber[0, <<>>].isValid

\* C19: validateRequired(value, fieldName) is valid exactly when value has a
\* character that is not white space; its message starts with fieldName when
\* invalid and is empty when valid.
C19_RequiredValidIffNotBlank ==
    \A f \in FieldNames :
        /\ out.validateRequired[f].isValid <=> \E k \in 1..Len(input) : input[k] # " "
        /\ ~out.validateRequired[f].isValid =>
              /\ Len(out.validateRequired[f].message) > Len(f)
              /\ SubSeq(out.validateRequired[f].message, 1, Len(f)) = f
        /\ out.validateRequired[f].isValid => out.validateRequired[f].message = <<>>

\* white space only: invalid, and the message names the field
C19_Witness ==
    /\ Len(input) > 1
    /\ \A k \in 1..Len(input) : input[k] = " "
    /\ ~out.validateRequired[<<"Name">>].isValid
    /\ out.validateRequired[<<"Name">>].message[1] = "Name"

-----------------------------------------------------------------------------
(* ValidationInput.                                                        *)

\* the value the last change event left in the field, after the
\* auto-formatting of the document and phone types
ShownValue == FormattedValue(props.validationType, input)

IsBlank(s) == \A k \in 1..Len(s) : s[k] = " "

\* the label in the message of a required field, Campo when no label is given
LabelInMessage == IF props.label = <<>> THEN <<"Campo">> ELSE props.label

\* the result of the validator that validationType selects, applied to s
SelectedValidatorResult(s) ==
    CASE props.validationType = "document" -> {validateDocument(s)}
      [] props.validationType = "phone" ->
            {[isValid |-> validatePhone(s), message |-> m] :
                m \in IF validatePhone(s) THEN {<<>>} ELSE {<<"Telefone invalido">>}}
      [] props.validationType = "email" ->
            {[isValid |-> validateEmail(s), message |-> m] :
                m \in IF validateEmail(s) THEN {<<>>} ELSE {<<"Email invalido">>}}
      [] props.validationType = "currency" ->
            {[isValid |-> validateCurrency(s), message |-> m] :
                m \in IF validateCurrency(s) THEN {<<>>} ELSE {<<"Valor invalido">>}}
      [] props.validationType = "number" -> {validateNumber(s, 0, <<>>)}
      [] props.validationType = "required" -> {validateRequired(s, LabelInMessage)}
      [] OTHER -> {InitialValidationState}

\* C20: after every change event ValidationInput holds exactly one result:
\* invalid with '<label> e obrigatorio' (Campo standing for a label that is
\* not given) when the field is required and the formatted value is blank;
\* valid with an empty message when the value is blank and the field is not
\* required, whatever the validationType; otherwise the result of the
\* validator that validationType selects; and onValidation is called once
\* with the isValid and message of the result stored in the state.
C20_OneResultPerChange ==
    origin = "changed" =>
        /\ (props.required /\ IsBlank(ShownValue)) =>
              validationState =
                 [isValid |-> FALSE, message |-> LabelInMessage \o <<" e obrigatorio">>]
        /\ (~props.required /\ IsBlank(ShownValue)) =>
              validationState = [isValid |-> TRUE, message |-> <<>>]
        /\ ~IsBlank(ShownValue) => validationState \in SelectedValidatorResult(ShownValue)
        /\ props.onValidation =>
              onValidation = <<[isValid |-> validationState.isValid,
                                message |-> validationState.message]>>
        /\ ~props.onValidation => onValidation = <<>>

\* a required document field in which a letter was typed: the formatting
\* leaves it blank, and both the state and onValidation hold the message
C20_Witness ==
    /\ origin = "changed"
    /\ props.validationType = "document"
    /\ props.required
    /\ props.onValidation
    /\ props.label = <<"Name">>
    /\ ~IsBlank(input)
    /\ validationState = [isValid |-> FALSE, message |-> <<"Name", " e obrigatorio">>]
    /\ onValidation = <<validationState>>

\* showValidation && validationState.isValid && value && validationType === 'document':
\* the green line is rendered
GreenLineShown ==
    /\ props.showValidation
    /\ validationState.isValid
    /\ valueProp # <<>>
    /\ props.validationType = "document"

\* C21: in every reachable state where the green '<type> valido' line is
\* displayed, validateDocument(value).isValid is true and its type is CPF or
\* CNPJ, also when the value prop was set by the parent without a change
\* event.
C21_GreenLineOnlyForValidDocument ==
    GreenLineShown =>
        /\ validateDocument(valueProp).isValid
        /\ validateDocument(valueProp).type \in {"CPF", "CNPJ"}

\* C22: for document and phone fields ValidationInput validates the
\* auto-formatted value and the verdict is the one of the raw value:
\* validateDocument(formatDocument(x)) = validateDocument(x) and
\* validatePhone(formatPhone(x)) = validatePhone(x) for every string x, and
\* these are the verdicts ValidationInput reports for a value that the
\* formatting does not leave blank.
C22_FormattingKeepsTheVerdict ==
    /\ validateDocument(out.formatDocument) = out.validateDocument
    /\ validatePhone(out.formatPhone) = out.validatePhone
    /\ \A r \in BOOLEAN, l \in Labels :
          /\ ~IsBlank(out.formatDocument) =>
                out.validation["document", r, l] = out.validateDocument
          /\ ~IsBlank(out.formatPhone) =>
                out.validation["phone", r, l].isValid = out.validatePhone

\* a valid CNPJ typed without its punctuation: the formatting rewrites it
\* and the verdict stays
C22_Witness ==
    /\ out.validateDocument.isValid
    /\ out.validateDocument.type = "CNPJ"
    /\ out.formatDocument # input
    /\ out.validation["document", TRUE, <<>>] = out.validateDocument
    /\ ~out.validatePhone

-----------------------------------------------------------------------------
(* Sales and stock.                                                        *)

\* the calls that create a sale
CreateKinds == {"service", "sale", "import"}

\* the call had this effect
Did(rec, effect) == \E k \in 1..Len(rec.log) : rec.log[k] = effect

\* the call had effect a before it had effect b, if it had effect b
Before(rec, a, b) ==
    \A k \in 1..Len(rec.log) :
        rec.log[k] = b => \E j \in 1..(k - 1) : rec.log[j] = a

\* salesService.createSale returned false, createSale of useSalesData threw
CreationFailed(rec) ==
    rec.kind \in CreateKinds /\ rec.outcome \in {"false", "thrown"}

StockShort(productList, cartItems) ==
    \E k \in 1..Len(cartItems) :
        \/ cartItems[k].productId \notin DOMAIN productList
        \/ cartItems[k].quantity > productList[cartItems[k].productId]

C25_FailedCreationLeavesNoTrace ==
    \A c \in 1..Len(calls) :
        CreationFailed(calls[c]) =>
            /\ c \notin remoteSales
            /\ c \notin remoteItems
            /\ ~Did(calls[c], "writeStock")

\* the units of product p in a cart
RECURSIVE QuantityIn(_, _)
QuantityIn(cartItems, p) ==
    IF cartItems = <<>> THEN 0
    ELSE (IF cartItems[1].productId = p THEN cartItems[1].quantity ELSE 0)
            + QuantityIn(Tail(cartItems), p)

\* the units of product p that the first n calls sold
RECURSIVE Sold(_, _)
Sold(n, p) ==
    IF n = 0 THEN 0 ELSE QuantityIn(calls[n].cart, p) + Sold(n - 1, p)

\* every call so far is a createSale that has returned, none of its remote
\* operations having reported an error
OnlyCompletedSales ==
    /\ calls # <<>>
    /\ \A c \in 1..Len(calls) :
          /\ calls[c].kind \in CreateKinds
          /\ calls[c].outcome \in {"true", "returned"}
          /\ ~calls[c].failed

\* C26: once a set of createSale calls for a product has completed, however
\* their reads and writes interleaved, the remote stock is
\* max(0, initial stock - units sold); it is never negative.
C26_StockIsInitialMinusSold ==
    \A p \in Products :
        /\ remoteStock[p] >= 0
        /\ OnlyCompletedSales =>
              remoteStock[p] = Max0(calls[1].stockAtStart[p] - Sold(Len(calls), p))

\* the place of an effect of deleteSale in the stated order
DeleteRank(effect) ==
    CASE effect = "writeStock" -> 1
      [] effect = "deleteItems" -> 2
      [] effect = "deleteSale" -> 3
      [] effect = "setSales" -> 4

\* C27: deleteSale adds the quantities back, then deletes the items, then
\* the sale row, then removes the sale from the list; after createSale and
\* then deleteSale of that sale, nothing else in between, every product's
\* stock is what it was before the sale.
C27_DeleteRestoresStock ==
    /\ \A c \in 1..Len(calls) :
          calls[c].kind = "delete" =>
             \A j, k \in 1..Len(calls[c].log) :
                 j < k => DeleteRank(calls[c].log[j]) <= DeleteRank(calls[c].log[k])
    /\ ( /\ Len(calls) = 2
         /\ calls[1].kind \in CreateKinds
         /\ ~calls[1].failed
         /\ calls[2].kind = "delete"
         /\ calls[2].target = 1
         /\ calls[2].outcome = "returned"
         /\ ~calls[2].failed )
       => remoteStock = calls[1].stockAtStart

\* C28: the sales that onSalesImported stored in localStorage 'sales' stay
\* there through every later sale creation.
C28_ImportedSalesStayCached == imported \subseteq salesCache

-----------------------------------------------------------------------------
(* useErrorHandling.                                                       *)

\* C30: retry invokes the operation only while fewer than maxRetries
\* failures are recorded; after maxRetries consecutive failed attempts of an
\* operation canRetry is false, and a further retry returns null without
\* invoking the operation.
C30_RetriesAreBounded ==
    /\ lastRetry.outcome = "invoked" => lastRetry.recorded < maxRetries
    /\ failedAttempts >= maxRetries => ~canRetry
    /\ lastRetry.outcome = "invoked" => lastRetry.failedBefore < maxRetries

-----------------------------------------------------------------------------
(* SequentialNumbers.                                                      *)

\* the load effect as stated: a daily reset to 1 that is persisted when
\* resetDaily is set and lastReset is not today, the saved configuration
\* unchanged otherwise
StatedLoad ==
    IF stored[1].resetDaily /\ stored[1].lastReset # today
    THEN /\ \A type \in Types : config'[CounterOf(type)] = 1
         /\ config'.lastReset = today
         /\ stored' = <<config'>>
    ELSE /\ config' = stored[1]
         /\ stored' = stored

\* incrementNumber as stated: the persisted configuration differs from the
\* one persisted before in the counter of the type, which is one higher
StatedIncrement(type) ==
    stored' = <<[stored[1] EXCEPT ![CounterOf(type)] = @ + 1]>>

\* C29: loading a saved configuration resets the three counters to 1 and
\* persists that when resetDaily is set and lastReset is not today, and
\* loads the saved counters unchanged otherwise; every call of
\* incrementNumber(type) raises the persisted counter of that type by one
\* and leaves the other counters, the prefix and resetDaily as persisted.
C29_CountersResetDailyAndCountCalls ==
    [][/\ (Mount /\ stored # <<>>) => StatedLoad
       /\ \A type \in Types :
             (incrementNumber(type) /\ stored # <<>>) => StatedIncrement(type)]_vars

====
